---- MODULE Spec2Model ----
(***************************************************************************)
(* A model of the school-lunch analysis pipeline of the GENAU project:     *)
(*   backend/scripts/parse_foodplan_xlsx.py   spreadsheet -> plan          *)
(*   backend/app.py (normalize_plan)          plan-level normalization     *)
(*   backend/scripts/evaluate_foodplan.py     plan x rules -> report       *)
(*                                                                         *)
(* Python values are encoded as follows.                                   *)
(*  - A text that the code inspects character by character (spreadsheet    *)
(*    cells, menu_type) is a sequence of one-character strings.            *)
(*  - A label that the code only compares (food group, tag, diet,          *)
(*    operator) is a TLA+ string; the strings None and Missing stand for   *)
(*    Python's None and for an absent dict key.                            *)
(*  - An optional value of another type is a record whose field t names    *)
(*    its Python type ("None", "missing", "dict", "list", "str", ...).     *)
(*  - The lists days, menus, items are sequences; the code reads them as   *)
(*    `x.get(k, []) or []`, so a missing or None list is the empty one.    *)
(***************************************************************************)
EXTENDS Integers, Sequences, FiniteSets, TLC

VARIABLES
    plan,        \* the plan document handed to normalize_plan / evaluate_plan_for_diet
    submitted,   \* the plan as it was before the first normalize_plan call
    first,       \* the plan as returned by the first normalize_plan call
    runs,        \* number of normalize_plan calls so far
    rules_doc,   \* the rule document of an evaluation request
    reports,     \* diet -> report of evaluate_plan_for_diet (NotRun before the call)
    collected,   \* diet -> result of collect_counts_and_evidence (NotRun before the call)
    rule,        \* build_rule_result: the rule
    counts,      \* build_rule_result: the aggregated counts of the diet run
    rule_result, \* build_rule_result: its result (NotRun before the call)
    rows,        \* parse_block: the rows of the block iterated so far
    block,       \* parse_block: its locals items and current
    items,       \* parse_block: the list it returns (NotRun before it returns)
    table,       \* parse_foodplan_xlsx: the sheet, a sequence of rows of 10 cells
    pc,          \* parse_foodplan_xlsx: its position
    day_rows,    \* parse_foodplan_xlsx: its local day_rows
    building,    \* parse_foodplan_xlsx: its local plan (NotRun before it is built)
    parsed,      \* parse_foodplan_xlsx: its outcome (NotRun before it ends)
    input_text,  \* tokenize / pick_best_group / collect_tags: the text
    group_keywords, \* the group catalog: (key, keywords) pairs in iteration order
    tag_keywords,   \* the tag catalog, likewise
    tokens,      \* tokenize: its result (NotRun before the call)
    group_res,   \* pick_best_group: its MatchResult (NotRun before the call)
    tag_res,     \* collect_tags: its result (NotRun before the call)
    bls_db,      \* enrich_plan: the lookup store behind bls_db_path
    stats,       \* enrich_plan: its stats dict (NotRun before it returns)
    queried,     \* enrich_plan: the texts passed to bls_best_match, in call order
    portion_text, \* parse_amount: the cell text (None for an empty cell)
    portion_res, \* parse_amount: its result (NotRun before the call)
    config,      \* the files under backend/rules and the process's hash order
    request,     \* the request last served (NotRun before the first)
    response     \* the response to it (NotRun before the first)

vars == <<plan, submitted, first, runs, rules_doc, reports, collected, rule,
          counts, rule_result, rows, block, items, table, pc, day_rows, building,
          parsed, input_text, group_keywords, tag_keywords, tokens, group_res,
          tag_res, bls_db, stats, queried, portion_text, portion_res, config,
          request, response>>

normVars  == <<plan, submitted, first, runs>>
evalVars  == <<rules_doc, reports, collected>>
ruleVars  == <<rule, counts, rule_result>>
blockVars == <<rows, block, items>>
parseVars == <<table, pc, day_rows, building, parsed>>
matchVars == <<input_text, group_keywords, tag_keywords, tokens, group_res, tag_res>>
enrichVars == <<bls_db, stats, queried>>
amountVars == <<portion_text, portion_res>>
uploadVars == <<config, request, response>>

None    == "<None>"
Missing == "<missing>"
NotRun  == [t |-> "not_run"]
Idle    == [t |-> "idle"]

\* The variables of the parts that a specification leaves out.
IdleNorm  == submitted = Idle /\ first = Idle /\ runs = Idle
IdleEval  == rules_doc = Idle /\ reports = Idle
IdleCount == collected = Idle
IdleRule  == rule = Idle /\ counts = Idle /\ rule_result = Idle
IdleBlock == rows = Idle /\ block = Idle /\ items = Idle
IdleParse == /\ table = Idle /\ pc = Idle /\ day_rows = Idle
             /\ building = Idle /\ parsed = Idle
IdleMatch == /\ input_text = Idle /\ group_keywords = Idle /\ tag_keywords = Idle
             /\ tokens = Idle /\ group_res = Idle /\ tag_res = Idle
IdleEnrich == bls_db = Idle /\ stats = Idle /\ queried = Idle
IdleAmount == portion_text = Idle /\ portion_res = Idle
IdleUpload == config = Idle /\ request = Idle /\ response = Idle

\* Bounds of the model.
MaxRuns      == 3
MaxItems     == 2
MaxMenus     == 2
MaxRules     == 2
MaxCount     == 3
MaxBlockRows == 3
MaxRows      == 3
MaxTextLen   == 3
MaxCats      == 2

-----------------------------------------------------------------------------
(* Sequences and texts *)

RECURSIVE SeqsUpTo(_, _)
SeqsUpTo(S, n) ==
    IF n = 0 THEN {<<>>}
    ELSE LET shorter == SeqsUpTo(S, n - 1)
         IN  shorter \cup {Append(s, x) : s \in {q \in shorter : Len(q) = n - 1}, x \in S}

Contains(s, x) == \E i \in 1..Len(s) : s[i] = x

Occurrences(s, x) == Cardinality({i \in 1..Len(s) : s[i] = x})

RECURSIVE Flatten(_)
Flatten(ss) == IF ss = <<>> THEN <<>> ELSE Head(ss) \o Flatten(Tail(ss))

RECURSIVE Sum(_)
Sum(ns) == IF ns = <<>> THEN 0 ELSE Head(ns) + Sum(Tail(ns))

\* str.isspace for one character.
IsSpace(c) == c \in {" ", "\t", "\n", "\r"}

\* str.lower for one character.
LowerChar(c) ==
    CASE c = "A" -> "a" [] c = "B" -> "b" [] c = "C" -> "c" [] c = "D" -> "d"
      [] c = "E" -> "e" [] c = "F" -> "f" [] c = "G" -> "g" [] c = "H" -> "h"
      [] c = "I" -> "i" [] c = "J" -> "j" [] c = "K" -> "k" [] c = "L" -> "l"
      [] c = "M" -> "m" [] c = "N" -> "n" [] c = "O" -> "o" [] c = "P" -> "p"
      [] c = "Q" -> "q" [] c = "R" -> "r" [] c = "S" -> "s" [] c = "T" -> "t"
      [] c = "U" -> "u" [] c = "V" -> "v" [] c = "W" -> "w" [] c = "X" -> "x"
      [] c = "Y" -> "y" [] c = "Z" -> "z"
      [] OTHER -> c

Lower(s) == [i \in 1..Len(s) |-> LowerChar(s[i])]

RECURSIVE LStrip(_)
LStrip(s) == IF s # <<>> /\ IsSpace(Head(s)) THEN LStrip(Tail(s)) ELSE s

RECURSIVE RStrip(_)
RStrip(s) ==
    IF s # <<>> /\ IsSpace(s[Len(s)]) THEN RStrip(SubSeq(s, 1, Len(s) - 1)) ELSE s

\* str.strip()
Strip(s) == RStrip(LStrip(s))

-----------------------------------------------------------------------------
(* The plan document (spec, section 6; parse_foodplan_xlsx.py:89-95, 168-176) *)

PyNone     == [t |-> "None"]
PyMissing  == [t |-> "missing"]
PyList(s)  == [t |-> "list", v |-> s]
PyStr(s)   == [t |-> "str", s |-> s]

\* A links dict; an absent key holds Missing.
Links(bls_id, food_group, confidence) ==
    [t |-> "dict", bls_id |-> bls_id, food_group |-> food_group,
     confidence |-> confidence]

EmptyDict == Links(Missing, Missing, Missing)

\* dict.get(key): None for an absent key.
Get(label) == IF label = Missing THEN None ELSE label

-----------------------------------------------------------------------------
(* backend/app.py: normalize_plan *)

\* Mutant: the raw_veg tag is appended without the membership test.
normalize_item_always_append(item) ==
    LET links == IF item.links.t = "dict" THEN item.links ELSE EmptyDict
        fg    == Get(links.food_group)
        tags  == IF item.tags.t = "list" THEN item.tags.v ELSE <<>>
    IN  [item EXCEPT
            !.links = IF fg \in {"vegetable", "vegetables"} \/ fg = "raw_veg"
                      THEN [links EXCEPT !.food_group = "vegetables"]
                      ELSE links,
            !.tags  = IF fg = "raw_veg"
                      THEN PyList(Append(tags, "raw_veg"))
                      ELSE item.tags]

\* Mutant: the raw_veg branch writes the alias "vegetable", not the
\* canonical "vegetables".
normalize_item_singular(item) ==
    LET links == IF item.links.t = "dict" THEN item.links ELSE EmptyDict
        fg    == Get(links.food_group)
        tags  == IF item.tags.t = "list" THEN item.tags.v ELSE <<>>
    IN  [item EXCEPT
            !.links = IF fg \in {"vegetable", "vegetables"}
                      THEN [links EXCEPT !.food_group = "vegetables"]
                      ELSE IF fg = "raw_veg"
                      THEN [links EXCEPT !.food_group = "vegetable"]
                      ELSE links,
            !.tags  = IF fg = "raw_veg"
                      THEN PyList(IF Contains(tags, "raw_veg") THEN tags
                                  ELSE Append(tags, "raw_veg"))
                      ELSE item.tags]

\* The body of the innermost loop of normalize_plan, for one item.
normalize_item(item) ==
    LET \* links = item.get("links") or {}
        links == IF item.links.t = "dict" THEN item.links ELSE EmptyDict
        \* fg = links.get("food_group")
        fg    == Get(links.food_group)
        \* tags = item.get("tags") or []
        tags  == IF item.tags.t = "list" THEN item.tags.v ELSE <<>>
    IN  [item EXCEPT
            \* item["links"] = links, with food_group rewritten for the two
            \* aliases and for raw_veg
            !.links = IF fg \in {"vegetable", "vegetables"} \/ fg = "raw_veg"
                      THEN [links EXCEPT !.food_group = "vegetables"]
                      ELSE links,
            \* item["tags"] = tags, only in the raw_veg branch
            !.tags  = IF fg = "raw_veg"
                      THEN PyList(IF Contains(tags, "raw_veg") THEN tags
                                  ELSE Append(tags, "raw_veg"))
                      ELSE item.tags]

normalize_menu(menu) ==
    [menu EXCEPT !.items = [i \in 1..Len(menu.items) |-> normalize_item(menu.items[i])]]

normalize_day(day) ==
    [day EXCEPT !.menus = [i \in 1..Len(day.menus) |-> normalize_menu(day.menus[i])]]

normalize_plan(p) ==
    [p EXCEPT !.days = [i \in 1..Len(p.days) |-> normalize_day(p.days[i])]]

\* All items of a plan, in document order.
AllItems(p) ==
    Flatten([d \in 1..Len(p.days) |->
        Flatten([m \in 1..Len(p.days[d].menus) |-> p.days[d].menus[m].items])])

-----------------------------------------------------------------------------
(* backend/scripts/evaluate_foodplan.py *)

MISCHKOST   == <<"m", "i", "s", "c", "h", "k", "o", "s", "t">>
VEGETARISCH == <<"v", "e", "g", "e", "t", "a", "r", "i", "s", "c", "h">>
DESSERT     == <<"d", "e", "s", "s", "e", "r", "t">>

Diets == {"mixed", "ovo_lacto_vegetarian"}

\* (menu_type or "")
OrEmpty(text) == IF text.t = "str" THEN text.s ELSE <<>>

\* Mutant: an unrecognized menu line is routed to the mixed run only.
diet_from_menu_type_unknown_mixed(menu_type) ==
    LET mt == Lower(Strip(OrEmpty(menu_type)))
    IN  IF mt = MISCHKOST THEN "mixed"
        ELSE IF mt = VEGETARISCH THEN "ovo_lacto_vegetarian"
        ELSE IF mt = DESSERT THEN "shared"
        ELSE "mixed"

diet_from_menu_type(menu_type) ==
    LET mt == Lower(Strip(OrEmpty(menu_type)))
    IN  IF mt = MISCHKOST THEN "mixed"
        ELSE IF mt = VEGETARISCH THEN "ovo_lacto_vegetarian"
        ELSE IF mt = DESSERT THEN "shared"
        ELSE "shared"

menu_included_for_diet(menu_type, selected_diet) ==
    LET d == diet_from_menu_type(menu_type)
    IN  IF d = "shared" THEN TRUE ELSE d = selected_diet

\* The tuples <<weekday, menu_type, item>> of a plan, in document order.
iter_items(p) ==
    Flatten([d \in 1..Len(p.days) |->
        Flatten([m \in 1..Len(p.days[d].menus) |->
            [i \in 1..Len(p.days[d].menus[m].items) |->
                <<p.days[d].weekday, p.days[d].menus[m].menu_type,
                  p.days[d].menus[m].items[i]>>]])])

RECURSIVE Repeat(_, _)
Repeat(x, n) == IF n = 0 THEN <<>> ELSE <<x>> \o Repeat(x, n - 1)

\* links.get("food_group") with links = item.get("links") or {}
ItemGroup(item) == IF item.links.t = "dict" THEN Get(item.links.food_group) ELSE None

\* item.get("tags") or []
ItemTags(item) == IF item.tags.t = "list" THEN item.tags.v ELSE <<>>

Evidence(e) == [weekday |-> e[1], menu_type |-> e[2], raw_text |-> e[3].raw_text]

\* Mutant: the group is counted whenever the links have one, empty or not.
collect_counts_and_evidence_any_group(p, selected_diet) ==
    LET included == SelectSeq(iter_items(p),
                        LAMBDA e : menu_included_for_diet(e[2], selected_diet))
        n        == Len(included)
        groups   == {ItemGroup(included[i][3]) : i \in 1..n} \ {None, Missing}
        tags     == UNION {{ItemTags(included[i][3])[j] :
                                j \in 1..Len(ItemTags(included[i][3]))} : i \in 1..n}
    IN  [group_counts |->
            [g \in groups |-> Cardinality({i \in 1..n : ItemGroup(included[i][3]) = g})],
         tag_counts |->
            [tg \in tags |-> Sum([i \in 1..n |-> Occurrences(ItemTags(included[i][3]), tg)])],
         evidence_groups |->
            [g \in groups |->
                Flatten([i \in 1..n |->
                    IF ItemGroup(included[i][3]) = g
                    THEN <<Evidence(included[i])>> ELSE <<>>])],
         evidence_tags |->
            [tg \in tags |->
                Flatten([i \in 1..n |->
                    Repeat(Evidence(included[i]),
                           Occurrences(ItemTags(included[i][3]), tg))])]]

\* The dicts are functions on the keys that were inserted.
collect_counts_and_evidence(p, selected_diet) ==
    LET included == SelectSeq(iter_items(p),
                        LAMBDA e : menu_included_for_diet(e[2], selected_diet))
        n        == Len(included)
        groups   == {ItemGroup(included[i][3]) : i \in 1..n} \ {None, Missing, ""}
        tags     == UNION {{ItemTags(included[i][3])[j] :
                                j \in 1..Len(ItemTags(included[i][3]))} : i \in 1..n}
    IN  [group_counts |->
            [g \in groups |-> Cardinality({i \in 1..n : ItemGroup(included[i][3]) = g})],
         tag_counts |->
            [tg \in tags |-> Sum([i \in 1..n |-> Occurrences(ItemTags(included[i][3]), tg)])],
         evidence_groups |->
            [g \in groups |->
                Flatten([i \in 1..n |->
                    IF ItemGroup(included[i][3]) = g
                    THEN <<Evidence(included[i])>> ELSE <<>>])],
         evidence_tags |->
            [tg \in tags |->
                Flatten([i \in 1..n |->
                    Repeat(Evidence(included[i]),
                           Occurrences(ItemTags(included[i][3]), tg))])]]

\* rule.get("diet", "all")
RuleDiet(r) == IF r.diet = Missing THEN "all" ELSE r.diet

\* Mutant: every rule applies to every diet run.
rule_applies_ignores_scope(r, selected_diet) ==
    LET d == RuleDiet(r)
    IN  IF d = "all" THEN TRUE ELSE d \in {"mixed", "ovo_lacto_vegetarian"}

rule_applies(r, selected_diet) ==
    LET d == RuleDiet(r)
    IN  IF d = "all" THEN TRUE ELSE d = selected_diet

\* A raised exception, as the value of the call that raised it.
Raise(exception, message) == [t |-> "error", exception |-> exception, message |-> message]

IsError(x) == x.t = "error"

\* Mutant: min is evaluated as a strict comparison.
evaluate_operator_strict_min(actual, operator, threshold) ==
    IF operator = "min" THEN [t |-> "bool", b |-> actual > threshold]
    ELSE IF operator = "max" THEN [t |-> "bool", b |-> actual <= threshold]
    ELSE IF operator = "equals" THEN [t |-> "bool", b |-> actual = threshold]
    ELSE Raise("ValueError", "Unsupported operator")

evaluate_operator(actual, operator, threshold) ==
    IF operator = "min" THEN [t |-> "bool", b |-> actual >= threshold]
    ELSE IF operator = "max" THEN [t |-> "bool", b |-> actual <= threshold]
    ELSE IF operator = "equals" THEN [t |-> "bool", b |-> actual = threshold]
    ELSE Raise("ValueError", "Unsupported operator")

\* s[:n]
Prefix(s, n) == SubSeq(s, 1, IF Len(s) < n THEN Len(s) ELSE n)

\* Mutant: of a list only the first value is kept.
as_list_first_only(value) ==
    IF value.t = "list" THEN Prefix(value.v, 1) ELSE <<value.s>>

\* value if it is a list, else [value]
as_list(value) == IF value.t = "list" THEN value.v ELSE <<value.s>>

\* dict.get(key, 0) and dict.get(key) or []
CountOf(dict, key) == IF key \in DOMAIN dict THEN dict[key] ELSE 0
EvidenceOf(dict, key) == IF key \in DOMAIN dict THEN dict[key] ELSE <<>>

EvidenceCap == 10

\* int(rule.get("threshold", 0))
RuleThreshold(r) == IF r.threshold.t = "int" THEN r.threshold.n ELSE 0

\* Mutant: a rule that does not apply to the run is not counted out.
build_rule_result_skips_inapplicable(r, selected_diet, group_counts, tag_counts, evidence_groups, evidence_tags) ==
    LET count_by  == Get(r.target.count_by)
        values    == as_list(r.target.value)
        operator  == Get(r.operator)
        threshold == RuleThreshold(r)
        cnt       == IF count_by = "food_group" THEN group_counts ELSE tag_counts
        evd       == IF count_by = "food_group" THEN evidence_groups ELSE evidence_tags
        actual    == IF rule_applies(r, selected_diet)
                     THEN Sum([i \in 1..Len(values) |-> CountOf(cnt, values[i])])
                     ELSE 0
        evidence  == Flatten([i \in 1..Len(values) |->
                         Prefix(EvidenceOf(evd, values[i]), EvidenceCap)])
        passed    == evaluate_operator(actual, operator, threshold)
        expected  == IF operator = "min" THEN <<"mind.", threshold>>
                     ELSE IF operator = "max" THEN <<"max.", threshold>>
                     ELSE IF operator = "equals" THEN <<"genau", threshold>>
                     ELSE <<operator, threshold>>
    IN  IF count_by \notin {"food_group", "tag"}
        THEN Raise("ValueError", "Unsupported target.count_by")
        ELSE IF IsError(passed) THEN passed
        ELSE [t |-> "rule_result",
              id |-> Get(r.id), label |-> Get(r.label), diet |-> Get(r.diet),
              applies |-> rule_applies(r, selected_diet),
              target |-> r.target, operator |-> operator, threshold |-> threshold,
              expected |-> expected, actual |-> actual, passed |-> passed.b,
              notes |-> Get(r.notes),
              evidence_sample |-> Prefix(evidence, EvidenceCap)]

build_rule_result(r, selected_diet, group_counts, tag_counts, evidence_groups, evidence_tags) ==
    LET count_by  == Get(r.target.count_by)
        values    == as_list(r.target.value)
        operator  == Get(r.operator)
        threshold == RuleThreshold(r)
        cnt       == IF count_by = "food_group" THEN group_counts ELSE tag_counts
        evd       == IF count_by = "food_group" THEN evidence_groups ELSE evidence_tags
        actual    == Sum([i \in 1..Len(values) |-> CountOf(cnt, values[i])])
        evidence  == Flatten([i \in 1..Len(values) |->
                         Prefix(EvidenceOf(evd, values[i]), EvidenceCap)])
        passed    == evaluate_operator(actual, operator, threshold)
        expected  == IF operator = "min" THEN <<"mind.", threshold>>
                     ELSE IF operator = "max" THEN <<"max.", threshold>>
                     ELSE IF operator = "equals" THEN <<"genau", threshold>>
                     ELSE <<operator, threshold>>
    IN  IF count_by \notin {"food_group", "tag"}
        THEN Raise("ValueError", "Unsupported target.count_by")
        ELSE IF IsError(passed) THEN passed
        ELSE [t |-> "rule_result",
              id |-> Get(r.id), label |-> Get(r.label), diet |-> Get(r.diet),
              applies |-> rule_applies(r, selected_diet),
              target |-> r.target, operator |-> operator, threshold |-> threshold,
              expected |-> expected, actual |-> actual, passed |-> passed.b,
              notes |-> Get(r.notes),
              evidence_sample |-> Prefix(evidence, EvidenceCap)]

\* round(passed / applicable, 3), in thousandths. A tie (a quotient ending in
\* exactly ...5 ten-thousandths) needs at least 16 applicable rules; Python
\* rounds it to the even neighbour.
Round3(passed, applicable) ==
    LET q == (passed * 1000) \div applicable
        r == (passed * 1000) % applicable
    IN  IF 2 * r < applicable THEN q
        ELSE IF 2 * r > applicable THEN q + 1
        ELSE IF q % 2 = 0 THEN q ELSE q + 1

\* The summary of a report (evaluate_foodplan.py:287-300); the score is in
\* thousandths.
summary_of(applicable, passed) ==
    [applicable_rules |-> applicable, passed_rules |-> passed,
     score |-> IF applicable # 0 THEN Round3(passed, applicable) ELSE 0]

\* Mutant: a rule that raises is skipped.
evaluate_plan_for_diet_skip_bad(p, doc, selected_diet) ==
    LET report(c, results) ==
            [t |-> "report", schema_version |-> "1.0", diet |-> selected_diet,
             scope |-> doc.scope,
             summary |->
                 summary_of(Cardinality({i \in 1..Len(results) : results[i].applies}),
                            Cardinality({i \in 1..Len(results) :
                                            results[i].applies /\ results[i].passed})),
             counts |-> [food_groups |-> c.group_counts, tags |-> c.tag_counts],
             rules |-> results]
        judged(c, all) == report(c, SelectSeq(all, LAMBDA x : ~IsError(x)))
        counted(c) ==
            judged(c, [i \in 1..Len(doc.rules) |->
                          build_rule_result(doc.rules[i], selected_diet,
                              c.group_counts, c.tag_counts,
                              c.evidence_groups, c.evidence_tags)])
    IN  counted(collect_counts_and_evidence(p, selected_diet))

\* Mutant: the score is taken over all rules, not over the applicable ones.
evaluate_plan_for_diet_score_all(p, doc, selected_diet) ==
    LET n == Len(doc.rules)
        report(c, results, failed) ==
            IF failed # {}
            THEN results[CHOOSE i \in failed : \A j \in failed : i <= j]
            ELSE [t |-> "report", schema_version |-> "1.0", diet |-> selected_diet,
                  scope |-> doc.scope,
                  summary |->
                      summary_of(Cardinality({i \in 1..n : results[i].applies}),
                                 Cardinality({i \in 1..n : results[i].passed})),
                  counts |-> [food_groups |-> c.group_counts, tags |-> c.tag_counts],
                  rules |-> results]
        judged(c, results) == report(c, results, {i \in 1..n : IsError(results[i])})
        counted(c) ==
            judged(c, [i \in 1..n |->
                          build_rule_result(doc.rules[i], selected_diet,
                              c.group_counts, c.tag_counts,
                              c.evidence_groups, c.evidence_tags)])
    IN  counted(collect_counts_and_evidence(p, selected_diet))

\* The report of one diet run, or the exception of the first rule that raises.
\* The counts are collected once, every rule gets its result, and the summary
\* counts the results that apply.
evaluate_plan_for_diet(p, doc, selected_diet) ==
    LET n == Len(doc.rules)
        report(c, results, failed) ==
            IF failed # {}
            THEN results[CHOOSE i \in failed : \A j \in failed : i <= j]
            ELSE [t |-> "report", schema_version |-> "1.0", diet |-> selected_diet,
                  scope |-> doc.scope,
                  summary |->
                      summary_of(Cardinality({i \in 1..n : results[i].applies}),
                                 Cardinality({i \in 1..n :
                                                 results[i].applies /\ results[i].passed})),
                  counts |-> [food_groups |-> c.group_counts, tags |-> c.tag_counts],
                  rules |-> results]
        judged(c, results) == report(c, results, {i \in 1..n : IsError(results[i])})
        counted(c) ==
            judged(c, [i \in 1..n |->
                          build_rule_result(doc.rules[i], selected_diet,
                              c.group_counts, c.tag_counts,
                              c.evidence_groups, c.evidence_tags)])
    IN  counted(collect_counts_and_evidence(p, selected_diet))

\* Mutant: the rules that applied to the run are removed from the document.
evaluate_call_consumes_rules(p, doc, selected_diet) ==
    [report    |-> evaluate_plan_for_diet(p, doc, selected_diet),
     plan      |-> p,
     rules_doc |-> [doc EXCEPT !.rules =
                       SelectSeq(@, LAMBDA r : ~rule_applies(r, selected_diet))]]

\* One call evaluate_plan_for_diet(plan, rules_doc, selected_diet): the
\* returned report and the two dict arguments as the call leaves them. The
\* function and its callees only read them (.get, iteration); the counts and
\* the evidence are built in fresh local dicts, and the module has no global
\* that a call writes.
evaluate_call(p, doc, selected_diet) ==
    [report    |-> evaluate_plan_for_diet(p, doc, selected_diet),
     plan      |-> p,
     rules_doc |-> doc]

-----------------------------------------------------------------------------
(* Plans submitted to normalize_plan: by the JSON body of /api/analyze      *)
(* (app.py:264-268, any JSON) or by enrich_plan (app.py:219-220).           *)

TXT_A == <<"a">>
MONTAG      == <<"M", "o", "n", "t", "a", "g">>

Item(raw_text, links, tags) ==
    [raw_text |-> raw_text, portion |-> PyNone, notes |-> <<>>,
     links |-> links, tags |-> tags]

Menu(menu_type, its) == [menu_type |-> menu_type, items |-> its]

Day(weekday, menus) == [date |-> None, weekday |-> weekday, menus |-> menus]

Plan(days) == [schema_version |-> "1.0", days |-> days]

NormLinks ==
    {PyMissing, EmptyDict}
    \cup {Links(None, fg, None) :
            fg \in {None, "vegetable", "vegetables", "raw_veg", "fruit"}}

NormTags ==
    {PyMissing}
    \cup {PyList(s) : s \in {<<>>, <<"raw_veg">>, <<"fish">>,
                             <<"raw_veg", "raw_veg">>}}

\* Every tags value with the food group raw_veg; with the other links values
\* (which leave the tags alone) an absent tags key and a tags list.
NormItems ==
    {Item(TXT_A, Links(None, "raw_veg", None), tg) : tg \in NormTags}
    \cup {Item(TXT_A, l, tg) : l \in NormLinks, tg \in {PyMissing, PyList(<<"raw_veg">>)}}

\* Plans of at most n items: one day with one menu holding all the items, or
\* one day per item.
NormPlans(n) ==
    LET seqs == SeqsUpTo(NormItems, n)
    IN  {Plan(<<Day(PyStr(MONTAG), <<Menu(PyStr(MISCHKOST), s)>>)>>) : s \in seqs}
        \cup {Plan([i \in 1..Len(s) |->
                    Day(PyStr(MONTAG), <<Menu(PyStr(DESSERT), <<s[i]>>)>>)]) :
                s \in {q \in seqs : Len(q) >= 2}}

InitNorm ==
    /\ plan \in NormPlans(MaxItems)
    /\ submitted = plan
    /\ first = NotRun
    /\ runs = 0
    /\ IdleEval /\ IdleCount /\ IdleRule /\ IdleBlock /\ IdleParse
    /\ IdleMatch /\ IdleEnrich
    /\ IdleAmount /\ IdleUpload

\* One call plan = normalize_plan(plan) (app.py:220, 268).
NormalizePlan ==
    /\ runs < MaxRuns
    /\ plan' = normalize_plan(plan)
    /\ first' = IF runs = 0 THEN plan' ELSE first
    /\ runs' = runs + 1
    /\ UNCHANGED <<submitted, evalVars, ruleVars, blockVars, parseVars, matchVars,
                 enrichVars,
                   amountVars, uploadVars>>

NextNorm == NormalizePlan

SpecNorm == InitNorm /\ [][NextNorm]_vars

\* The food group and the tags list of an item after normalization.
FoodGroupOf(item) == IF item.links.t = "dict" THEN Get(item.links.food_group) ELSE None
TagsOf(item) == IF item.tags.t = "list" THEN item.tags.v ELSE <<>>

\* C1: normalize_plan is idempotent: a second and a third call return the
\* plan the first call returned, whatever the submitted plan was.
C1_NormalizeIdempotent ==
    runs >= 1 => /\ normalize_plan(plan) = plan
                 /\ plan = first

\* C1 witness: two calls were made on a plan that the first call changed.
C1_Witness ==
    /\ runs = 2
    /\ first # submitted
    /\ \E i \in 1..Len(AllItems(submitted)) :
          /\ FoodGroupOf(AllItems(submitted)[i]) = "raw_veg"
          /\ AllItems(submitted)[i].tags.t = "missing"

\* C2 as stated: after normalization every item submitted with food group
\* raw_veg has food group vegetables and carries the tag raw_veg exactly
\* once, whatever its submitted tags list was.
C2_ExactlyOnceWhatever ==
    runs >= 1 =>
        \A i \in 1..Len(AllItems(submitted)) :
            FoodGroupOf(AllItems(submitted)[i]) = "raw_veg" =>
                /\ FoodGroupOf(AllItems(plan)[i]) = "vegetables"
                /\ Occurrences(TagsOf(AllItems(plan)[i]), "raw_veg") = 1

\* C2 amended: after any number of normalize_plan calls every item
\* submitted with food group raw_veg has food group vegetables and carries
\* the tag raw_veg; normalize_plan adds the tag only when it is absent, so
\* the tag occurs exactly once when the submitted tags held it at most once,
\* and as often as submitted otherwise; all other tags are kept in order.
C2_RawVegReclassified ==
    runs >= 1 =>
        \A i \in 1..Len(AllItems(submitted)) :
            LET before == AllItems(submitted)[i]
                after  == AllItems(plan)[i]
                n      == Occurrences(TagsOf(before), "raw_veg")
            IN  FoodGroupOf(before) = "raw_veg" =>
                    /\ FoodGroupOf(after) = "vegetables"
                    /\ after.tags.t = "list"
                    /\ Occurrences(after.tags.v, "raw_veg") = IF n = 0 THEN 1 ELSE n
                    /\ n <= 1 => Occurrences(after.tags.v, "raw_veg") = 1
                    /\ SubSeq(after.tags.v, 1, Len(TagsOf(before))) = TagsOf(before)

\* C2 witness: an item submitted as raw_veg that already carried the tag
\* once has been normalized three times.
C2_Witness ==
    /\ runs = MaxRuns
    /\ \E i \in 1..Len(AllItems(submitted)) :
          /\ FoodGroupOf(AllItems(submitted)[i]) = "raw_veg"
          /\ TagsOf(AllItems(submitted)[i]) = <<"raw_veg">>
          /\ TagsOf(AllItems(plan)[i]) = <<"raw_veg">>

-----------------------------------------------------------------------------
(* collect_counts_and_evidence on its own: the routing of items to diet runs *)

SUPPE        == <<"s", "u", "p", "p", "e">>
VEGETARISCH2 == <<" ", "V", "e", "g", "e", "t", "a", "r", "i", "s", "c", "h">>

\* menu.get("menu_type"): the three lines of the parser, a spelling that
\* strip().lower() maps onto one of them, an unknown line and a missing
\* menu_type.
MenuTypes ==
    {PyStr(MISCHKOST), PyStr(VEGETARISCH), PyStr(DESSERT), PyStr(VEGETARISCH2),
     PyStr(SUPPE), PyNone}

CountItems ==
    {Item(TXT_A, Links(None, "vegetables", None), PyList(<<"raw_veg">>)),
     Item(TXT_A, Links(None, "fish", None), PyNone),
     Item(TXT_A, Links(None, None, None), PyList(<<"raw_veg", "fish">>)),
     Item(TXT_A, Links(None, "", None), PyList(<<>>))}

CountMenus ==
    {Menu(mt, its) : mt \in MenuTypes, its \in {<<>>} \cup {<<it>> : it \in CountItems}}

\* Plans of one day with at most n menus.
CountPlans(n) ==
    {Plan(<<Day(PyStr(MONTAG), menus)>>) : menus \in SeqsUpTo(CountMenus, n)}

InitCounts ==
    /\ plan \in CountPlans(MaxMenus)
    /\ collected = [d \in Diets |-> NotRun]
    /\ IdleNorm /\ IdleEval /\ IdleRule /\ IdleBlock /\ IdleParse
    /\ IdleMatch /\ IdleEnrich
    /\ IdleAmount /\ IdleUpload

\* One call of collect_counts_and_evidence (evaluate_foodplan.py:276).
CollectCountsAndEvidence(d) ==
    /\ collected[d] = NotRun
    /\ collected' = [collected EXCEPT ![d] = collect_counts_and_evidence(plan, d)]
    /\ UNCHANGED <<normVars, rules_doc, reports, ruleVars, blockVars, parseVars, matchVars,
                 enrichVars,
                   amountVars, uploadVars>>

NextCounts == \E d \in Diets : CollectCountsAndEvidence(d)

SpecCounts == InitCounts /\ [][NextCounts]_vars

\* The menu line kind, as the code recognizes it.
LineKind(menu_type) == Lower(Strip(OrEmpty(menu_type)))

\* The runs in which the claim counts an item of this menu line.
RunsOfLine(menu_type) ==
    IF LineKind(menu_type) = MISCHKOST THEN {"mixed"}
    ELSE IF LineKind(menu_type) = VEGETARISCH THEN {"ovo_lacto_vegetarian"}
    ELSE {"mixed", "ovo_lacto_vegetarian"}

\* Number of tuples among its that are routed to run d and satisfy Keep.
Routed(its, d, Keep(_)) ==
    Cardinality({i \in 1..Len(its) : d \in RunsOfLine(its[i][2]) /\ Keep(its[i][3])})

\* C3: an item of a dessert line or of an unrecognized line is counted in
\* both runs, an item of the vegetarisch line only in the
\* ovo_lacto_vegetarian run, an item of the mischkost line only in the mixed
\* run: every count of a run is the number of items routed to it.
C3_DietRouting ==
    LET its == iter_items(plan)
    IN  \A d \in Diets :
            collected[d] # NotRun =>
                /\ \A g \in {"vegetables", "fish"} :
                     /\ CountOf(collected[d].group_counts, g)
                          = Routed(its, d, LAMBDA it : ItemGroup(it) = g)
                     /\ Len(EvidenceOf(collected[d].evidence_groups, g))
                          = Routed(its, d, LAMBDA it : ItemGroup(it) = g)
                /\ \A tg \in {"raw_veg", "fish"} :
                     CountOf(collected[d].tag_counts, tg)
                          = Routed(its, d, LAMBDA it : Contains(ItemTags(it), tg))
                /\ DOMAIN collected[d].group_counts \subseteq {"vegetables", "fish"}
                /\ DOMAIN collected[d].tag_counts \subseteq {"raw_veg", "fish"}

\* C3 witness: a plan with a vegetarisch item and an item on an unknown
\* line; both runs count the unknown line's fish, only the vegetarian run
\* counts the vegetables.
C3_Witness ==
    /\ \A d \in Diets : collected[d] # NotRun
    /\ Len(plan.days[1].menus) = 2
    /\ plan.days[1].menus[1].menu_type = PyStr(VEGETARISCH2)
    /\ plan.days[1].menus[2].menu_type = PyStr(SUPPE)
    /\ CountOf(collected["mixed"].group_counts, "vegetables") = 0
    /\ CountOf(collected["ovo_lacto_vegetarian"].group_counts, "vegetables") = 1
    /\ CountOf(collected["mixed"].group_counts, "fish") = 1
    /\ CountOf(collected["ovo_lacto_vegetarian"].group_counts, "fish") = 1

\* The sum of the counts of a dict over the keys in S.
RECURSIVE SumCounts(_, _)
SumCounts(dict, S) ==
    IF S = {} THEN 0
    ELSE LET k == CHOOSE x \in S : TRUE
         IN  dict[k] + SumCounts(dict, S \ {k})

\* The food_group entry of an item as the document holds it (null when the
\* item has no links or the links have no food_group).
StoredGroup(item) ==
    IF item.links.t # "dict" \/ item.links.food_group = Missing THEN None
    ELSE item.links.food_group

\* C23 as stated: in each run the food-group counts add up to the number of
\* included items with a non-null food group, and none is recorded under a
\* null key.
C23_NonNullGroupsCounted ==
    LET its == iter_items(plan)
    IN  \A d \in Diets :
            collected[d] # NotRun =>
                /\ None \notin DOMAIN collected[d].group_counts
                /\ SumCounts(collected[d].group_counts, DOMAIN collected[d].group_counts)
                     = Routed(its, d, LAMBDA it : StoredGroup(it) # None)

\* C23: in each run the food-group counts add up to the number of included
\* items whose food group is neither null nor the empty text; no count is
\* recorded under a null or empty key, every count is positive, and an item
\* with a null food group leaves every count as it is without that item.
C23_NonEmptyGroupsCounted ==
    LET its == iter_items(plan)
    IN  \A d \in Diets :
            collected[d] # NotRun =>
                /\ None \notin DOMAIN collected[d].group_counts
                /\ "" \notin DOMAIN collected[d].group_counts
                /\ \A g \in DOMAIN collected[d].group_counts :
                     /\ collected[d].group_counts[g] > 0
                     /\ collected[d].group_counts[g]
                          = Routed(its, d, LAMBDA it : StoredGroup(it) = g)
                /\ SumCounts(collected[d].group_counts, DOMAIN collected[d].group_counts)
                     = Routed(its, d, LAMBDA it : StoredGroup(it) \notin {None, ""})

\* C23 witness: a dessert line with an item of null food group next to a
\* line with a fish item: both runs count one fish and nothing else.
C23_Witness ==
    /\ \A d \in Diets : collected[d] # NotRun
    /\ Len(plan.days[1].menus) = 2
    /\ plan.days[1].menus[1].menu_type = PyStr(DESSERT)
    /\ Len(plan.days[1].menus[1].items) = 1
    /\ plan.days[1].menus[1].items[1].links = Links(None, None, None)
    /\ plan.days[1].menus[2].menu_type = PyStr(SUPPE)
    /\ \A d \in Diets : collected[d].group_counts = [g \in {"fish"} |-> 1]

-----------------------------------------------------------------------------
(* build_rule_result on its own *)

Rule(id, diet, count_by, value, operator, threshold) ==
    [id |-> id, label |-> id, diet |-> diet,
     target |-> [count_by |-> count_by, value |-> value],
     operator |-> operator, threshold |-> threshold, notes |-> None]

PyInt(n) == [t |-> "int", n |-> n]

RuleInputs ==
    {Rule("r", diet, count_by, value, operator, threshold) :
        diet \in {"all", "mixed", Missing},
        count_by \in {"food_group", "tag", "recipe"},
        value \in {PyStr("vegetables"), PyStr("raw_veg"),
                   PyList(<<"vegetables", "fish">>)},
        operator \in {"min", "max", "equals", "between"},
        threshold \in {PyInt(n) : n \in 0..MaxCount} \cup {PyMissing}}

EV == [weekday |-> PyStr(MONTAG), menu_type |-> PyStr(DESSERT), raw_text |-> TXT_A]

\* A dict with key k counted n times (no key when n = 0).
Counted(k, n) == [x \in IF n = 0 THEN {} ELSE {k} |-> n]
Evidenced(k, n) == [x \in IF n = 0 THEN {} ELSE {k} |-> Repeat(EV, n)]

\* dict union of two dicts with disjoint keys
Merge(f, g) == [x \in DOMAIN f \cup DOMAIN g |-> IF x \in DOMAIN f THEN f[x] ELSE g[x]]

\* Raw texts of distinct items, one letter each.
EvidenceMarks == <<"a", "b", "c", "d", "e", "f", "g", "h", "i", "j", "k", "l">>

\* The evidence of key k counted n times on the menu line mt, one entry per
\* counted item.
NumberedEvidence(k, mt, n) ==
    [x \in IF n = 0 THEN {} ELSE {k} |->
        [i \in 1..n |-> [weekday |-> PyStr(MONTAG), menu_type |-> PyStr(mt),
                         raw_text |-> <<EvidenceMarks[i]>>]]]

\* Counts of a plan with more items of a group than an evidence sample holds.
LongCountInputs ==
    {[group_counts |-> Merge(Counted("vegetables", v), Counted("fish", f)),
      tag_counts |-> Counted("raw_veg", v),
      evidence_groups |-> Merge(NumberedEvidence("vegetables", MISCHKOST, v),
                                NumberedEvidence("fish", DESSERT, f)),
      evidence_tags |-> NumberedEvidence("raw_veg", MISCHKOST, v)] :
        v \in {EvidenceCap - 2, EvidenceCap + 1}, f \in {0, 3}}

CountInputs ==
    {[group_counts |-> Merge(Counted("vegetables", v), Counted("fish", f)),
      tag_counts |-> Counted("raw_veg", r),
      evidence_groups |-> Merge(Evidenced("vegetables", v), Evidenced("fish", f)),
      evidence_tags |-> Evidenced("raw_veg", r)] :
        v \in 0..MaxCount, f \in 0..1, r \in 0..1}
    \cup LongCountInputs

InitRule ==
    /\ rule \in RuleInputs
    /\ counts \in CountInputs
    /\ rule_result = NotRun
    /\ plan = Idle
    /\ IdleNorm /\ IdleEval /\ IdleCount /\ IdleBlock /\ IdleParse
    /\ IdleMatch /\ IdleEnrich
    /\ IdleAmount /\ IdleUpload

\* One call of build_rule_result (evaluate_foodplan.py:286).
BuildRuleResult(d) ==
    /\ rule_result = NotRun
    /\ rule_result' = build_rule_result(rule, d, counts.group_counts, counts.tag_counts,
                                        counts.evidence_groups, counts.evidence_tags)
    /\ UNCHANGED <<normVars, evalVars, rule, counts, blockVars, parseVars, matchVars,
                 enrichVars,
                   amountVars, uploadVars>>

NextRule == \E d \in Diets : BuildRuleResult(d)

SpecRule == InitRule /\ [][NextRule]_vars

ScenarioRule == Rule("r", "all", "food_group", PyStr("vegetables"), "min", PyInt(3))

\* C4: for a rule with operator min, max or equals the result's passed is
\* actual >= threshold, actual <= threshold, actual = threshold; the rule
\* min 3 on vegetables against a count of 2 gives actual 2, passed false,
\* expected "mind. 3".
C4_PassedIsComparison ==
    rule_result # NotRun =>
        /\ (rule.operator \in {"min", "max", "equals"}
              /\ rule.target.count_by \in {"food_group", "tag"})
             => /\ rule_result.t = "rule_result"
                /\ rule_result.threshold = RuleThreshold(rule)
                /\ rule.operator = "min" =>
                     (rule_result.passed <=> rule_result.actual >= RuleThreshold(rule))
                /\ rule.operator = "max" =>
                     (rule_result.passed <=> rule_result.actual <= RuleThreshold(rule))
                /\ rule.operator = "equals" =>
                     (rule_result.passed <=> rule_result.actual = RuleThreshold(rule))
        /\ (rule = ScenarioRule /\ CountOf(counts.group_counts, "vegetables") = 2)
             => /\ rule_result.actual = 2
                /\ rule_result.passed = FALSE
                /\ rule_result.expected = <<"mind.", 3>>

\* C4 witness: the scenario of the claim has been evaluated, and failed.
C4_Witness ==
    /\ rule = ScenarioRule
    /\ counts.group_counts = Counted("vegetables", 2)
    /\ rule_result # NotRun
    /\ rule_result.t = "rule_result"
    /\ rule_result.actual = 2
    /\ ~rule_result.passed

\* The target values of a rule, a single value counting as a list of one.
TargetValues(r) ==
    IF r.target.value.t = "list" THEN r.target.value.v ELSE <<r.target.value.s>>

\* C18: actual is the sum, over the rule's target values, of the aggregated
\* count of that food group or tag in the diet run (0 when absent);
\* evidence_sample is the first 10 entries of the concatenation of the
\* per-value evidence lists, each cut to its first 10 entries, and never has
\* more than 10 entries.
C18_ActualSumEvidenceCap ==
    (rule_result # NotRun /\ rule_result.t = "rule_result") =>
        LET vals == TargetValues(rule)
            by_group == rule.target.count_by = "food_group"
            cnt  == IF by_group THEN counts.group_counts ELSE counts.tag_counts
            evd  == IF by_group THEN counts.evidence_groups ELSE counts.evidence_tags
            Of(v) == IF v \in DOMAIN evd THEN evd[v] ELSE <<>>
            cut  == [i \in 1..Len(vals) |-> SubSeq(Of(vals[i]), 1,
                        IF Len(Of(vals[i])) < 10 THEN Len(Of(vals[i])) ELSE 10)]
            all  == Flatten(cut)
        IN  /\ rule_result.actual
                  = Sum([i \in 1..Len(vals) |->
                            IF vals[i] \in DOMAIN cnt THEN cnt[vals[i]] ELSE 0])
            /\ Len(rule_result.evidence_sample) <= 10
            /\ rule_result.evidence_sample
                  = SubSeq(all, 1, IF Len(all) < 10 THEN Len(all) ELSE 10)

\* C18 witness: a rule on the values vegetables and fish, counted 11 and 3
\* times: actual is 14 and the sample holds the first 10 vegetables entries.
C18_Witness ==
    /\ rule_result # NotRun
    /\ rule_result.t = "rule_result"
    /\ rule.target.value = PyList(<<"vegetables", "fish">>)
    /\ rule.target.count_by = "food_group"
    /\ CountOf(counts.group_counts, "vegetables") = 11
    /\ CountOf(counts.group_counts, "fish") = 3
    /\ rule_result.actual = 14
    /\ Len(rule_result.evidence_sample) = 10
    /\ Len(counts.evidence_groups["vegetables"]) = 11

-----------------------------------------------------------------------------
(* evaluate_plan_for_diet: the two diet runs of one request                 *)
(* (app.py:287-292, evaluate_foodplan.py:329-336)                           *)

VegItem == Item(TXT_A, Links(None, "vegetables", None), PyList(<<"raw_veg">>))

\* One day with the parser's three menu lines, each with or without a
\* vegetables dish.
EvalPlans ==
    {Plan(<<Day(PyStr(MONTAG),
                <<Menu(PyStr(MISCHKOST), m), Menu(PyStr(VEGETARISCH), v),
                  Menu(PyStr(DESSERT), d)>>)>>) :
        m \in {<<>>, <<VegItem>>}, v \in {<<>>, <<VegItem>>}, d \in {<<>>, <<VegItem>>}}

EvalRules ==
    {Rule("g", diet, "food_group", PyStr("vegetables"), operator, PyInt(1)) :
        diet \in {"all", "mixed", "ovo_lacto_vegetarian"},
        operator \in {"min", "max", "equals"}}
    \cup {Rule("t", Missing, "tag", PyList(<<"raw_veg", "fish">>), "min", PyInt(2)),
          Rule("o", "ovo_lacto_vegetarian", "food_group", PyStr("vegetables"),
               "between", PyInt(1)),
          Rule("c", "mixed", "recipe", PyStr("vegetables"), "min", PyInt(1))}

\* Rule documents of at most n rules.
RuleDocs(n) == {[scope |-> "lunch", rules |-> rs] : rs \in SeqsUpTo(EvalRules, n)}

\* Documents of three rules on the vegetables count, scoped to every diet or
\* to the vegetarian diet.
ThirdsDocs ==
    LET rs == {Rule("g", "all", "food_group", PyStr("vegetables"), "min", PyInt(1)),
               Rule("g", "all", "food_group", PyStr("vegetables"), "max", PyInt(1)),
               Rule("g", "ovo_lacto_vegetarian", "food_group", PyStr("vegetables"),
                    "equals", PyInt(1)),
               Rule("g", "mixed", "food_group", PyStr("vegetables"), "min", PyInt(1))}
    IN  {[scope |-> "lunch", rules |-> <<a, b, c>>] : a \in rs, b \in rs, c \in rs}

InitEval ==
    /\ plan \in EvalPlans
    /\ rules_doc \in RuleDocs(MaxRules) \cup ThirdsDocs
    /\ reports = [d \in Diets |-> NotRun]
    /\ IdleNorm /\ IdleCount /\ IdleRule /\ IdleBlock /\ IdleParse
    /\ IdleMatch /\ IdleEnrich
    /\ IdleAmount /\ IdleUpload

\* One call of evaluate_plan_for_diet. The callers run mixed first; the
\* function itself is called once per diet, in either order here.
EvaluatePlanForDiet(d) ==
    /\ reports[d] = NotRun
    /\ \E call \in {evaluate_call(plan, rules_doc, d)} :
           /\ reports' = [reports EXCEPT ![d] = call.report]
           /\ plan' = call.plan
           /\ rules_doc' = call.rules_doc
    /\ UNCHANGED <<submitted, first, runs, collected, ruleVars, blockVars, parseVars,
                   matchVars, enrichVars,
                   amountVars, uploadVars>>

NextEval == \E d \in Diets : EvaluatePlanForDiet(d)

SpecEval == InitEval /\ [][NextEval]_vars

\* C5: in every returned report 0 <= passed_rules <= applicable_rules <=
\* number of rules, the score lies in [0, 1] (in thousandths), and the score
\* is 0 when no rule is applicable.
C5_SummaryBounds ==
    \A d \in Diets :
        (reports[d] # NotRun /\ reports[d].t = "report") =>
            LET sm == reports[d].summary
            IN  /\ 0 <= sm.passed_rules
                /\ sm.passed_rules <= sm.applicable_rules
                /\ sm.applicable_rules <= Len(rules_doc.rules)
                /\ 0 <= sm.score /\ sm.score <= 1000
                /\ sm.applicable_rules = 0 => sm.score = 0

\* C5 witness: a document of two rules, none applicable to the mixed run
\* (score 0), one of them passing in the vegetarian run (score 0.5).
C5_Witness ==
    /\ \A d \in Diets : reports[d] # NotRun /\ reports[d].t = "report"
    /\ Len(rules_doc.rules) = 2
    /\ reports["mixed"].summary.applicable_rules = 0
    /\ reports["mixed"].summary.score = 0
    /\ reports["mixed"].rules[1].passed
    /\ reports["ovo_lacto_vegetarian"].summary.applicable_rules = 2
    /\ reports["ovo_lacto_vegetarian"].summary.score = 500

\* A rule that evaluate_operator or build_rule_result does not support.
Unsupported(r) ==
    \/ Get(r.operator) \notin {"min", "max", "equals"}
    \/ Get(r.target.count_by) \notin {"food_group", "tag"}

\* C6: a rule with an unknown operator or an unknown count_by makes every
\* diet run raise and return no report, whatever the rule's diet scope and
\* wherever it stands in the document.
C6_UnsupportedRuleAborts ==
    \A d \in Diets :
        (reports[d] # NotRun
           /\ \E i \in 1..Len(rules_doc.rules) : Unsupported(rules_doc.rules[i]))
        => /\ reports[d].t = "error"
           /\ reports[d].exception = "ValueError"

\* C6 witness: the unsupported rule comes second and is scoped to the
\* vegetarian diet; the mixed run has raised too.
C6_Witness ==
    /\ Len(rules_doc.rules) = 2
    /\ ~Unsupported(rules_doc.rules[1])
    /\ rules_doc.rules[2].operator = "between"
    /\ rules_doc.rules[2].diet = "ovo_lacto_vegetarian"
    /\ \A d \in Diets : reports[d] # NotRun /\ reports[d].t = "error"

\* The positions of the rules whose diet scope (all when the rule names
\* none) is all or the diet d.
ScopedTo(doc, d) ==
    {i \in 1..Len(doc.rules) :
        \/ doc.rules[i].diet \in {"all", Missing}
        \/ doc.rules[i].diet = d}

\* doc without its i-th rule.
WithoutRule(doc, i) ==
    [doc EXCEPT !.rules = SubSeq(@, 1, i - 1) \o SubSeq(@, i + 1, Len(@))]

\* C19: in every report, a rule result applies exactly when the rule's diet
\* scope is all or the evaluated diet; applicable_rules is the number of
\* those rules, passed_rules the number of them that passed, the score is
\* the thousandth nearest to passed_rules / applicable_rules; and removing a
\* rule scoped to the other diet from the document leaves the summary as it
\* is.
C19_ScoreCountsApplicableRules ==
    \A d \in Diets :
        (reports[d] # NotRun /\ reports[d].t = "report") =>
            LET sm     == reports[d].summary
                scoped == ScopedTo(rules_doc, d)
                diff   == 1000 * sm.passed_rules - sm.score * sm.applicable_rules
            IN  /\ \A i \in 1..Len(rules_doc.rules) :
                       reports[d].rules[i].applies <=> i \in scoped
                /\ sm.applicable_rules = Cardinality(scoped)
                /\ sm.passed_rules
                       = Cardinality({i \in scoped : reports[d].rules[i].passed})
                /\ sm.applicable_rules > 0 =>
                       /\ 2 * diff <= sm.applicable_rules
                       /\ -2 * diff <= sm.applicable_rules
                /\ \A i \in 1..Len(rules_doc.rules) \ scoped :
                       evaluate_plan_for_diet(plan, WithoutRule(rules_doc, i), d).summary
                           = sm

\* C19 witness: rules all/min, all/max and vegetarian/equals against two
\* vegetables dishes in each run: the mixed run counts 2 rules and scores
\* 0.5, the vegetarian run counts 3 and scores 0.333.
C19_Witness ==
    /\ \A d \in Diets : reports[d] # NotRun /\ reports[d].t = "report"
    /\ Len(rules_doc.rules) = 3
    /\ rules_doc.rules[3].diet = "ovo_lacto_vegetarian"
    /\ ~reports["mixed"].rules[3].applies
    /\ reports["mixed"].summary
           = [applicable_rules |-> 2, passed_rules |-> 1, score |-> 500]
    /\ reports["ovo_lacto_vegetarian"].summary
           = [applicable_rules |-> 3, passed_rules |-> 1, score |-> 333]

Holds(operator, actual, threshold) ==
    IF operator = "min" THEN actual >= threshold
    ELSE IF operator = "max" THEN actual <= threshold
    ELSE actual = threshold

\* C27: a report has one rule result per rule of the document, in document
\* order; each carries the actual count of the run (the sum of the run's
\* counts over the rule's values) and passed as the rule's comparison of it,
\* whether the rule applies or not; applies is false exactly for the rules
\* scoped to the other diet, and applicable_rules and passed_rules count the
\* results with applies (and passed) true.
C27_EveryRuleEvaluated ==
    \A d \in Diets :
        (reports[d] # NotRun /\ reports[d].t = "report") =>
            LET rep == reports[d]
                n   == Len(rules_doc.rules)
            IN  /\ Len(rep.rules) = n
                /\ \A i \in 1..n :
                      LET r    == rules_doc.rules[i]
                          rr   == rep.rules[i]
                          cnt  == IF r.target.count_by = "food_group"
                                  THEN rep.counts.food_groups ELSE rep.counts.tags
                          vals == TargetValues(r)
                          thr  == IF r.threshold.t = "int" THEN r.threshold.n ELSE 0
                      IN  /\ rr.id = r.id /\ rr.target = r.target
                          /\ rr.operator = r.operator
                          /\ rr.diet = (IF r.diet = Missing THEN None ELSE r.diet)
                          /\ rr.actual
                                = Sum([k \in 1..Len(vals) |->
                                         IF vals[k] \in DOMAIN cnt THEN cnt[vals[k]] ELSE 0])
                          /\ rr.passed = Holds(r.operator, rr.actual, thr)
                          /\ rr.applies <=> i \in ScopedTo(rules_doc, d)
                /\ rep.summary.applicable_rules
                      = Cardinality({i \in 1..n : rep.rules[i].applies})
                /\ rep.summary.passed_rules
                      = Cardinality({i \in 1..n : rep.rules[i].applies /\ rep.rules[i].passed})

\* C27 witness: the third rule of the document is scoped to the vegetarian
\* diet; the mixed report still holds its result, with the mixed run's
\* count 1 and passed true, and counts two applicable rules.
C27_Witness ==
    /\ reports["mixed"] # NotRun
    /\ reports["mixed"].t = "report"
    /\ Len(rules_doc.rules) = 3
    /\ rules_doc.rules[3].diet = "ovo_lacto_vegetarian"
    /\ Len(reports["mixed"].rules) = 3
    /\ ~reports["mixed"].rules[3].applies
    /\ reports["mixed"].rules[3].actual = 1
    /\ reports["mixed"].rules[3].passed
    /\ reports["mixed"].summary.applicable_rules = 2

-----------------------------------------------------------------------------
(* backend/scripts/parse_foodplan_xlsx.py *)

\* A spreadsheet cell as pandas delivers it: NaN for an empty cell, a str, an
\* int, or None (written by block.iat[0, 0] = None).
NaN        == [t |-> "nan"]
Cell(text) == PyStr(text)

MONTAG_LC     == <<"m", "o", "n", "t", "a", "g">>
DIENSTAG_LC   == <<"d", "i", "e", "n", "s", "t", "a", "g">>
MITTWOCH_LC   == <<"m", "i", "t", "t", "w", "o", "c", "h">>
DONNERSTAG_LC == <<"d", "o", "n", "n", "e", "r", "s", "t", "a", "g">>
FREITAG_LC    == <<"f", "r", "e", "i", "t", "a", "g">>

DAYS == {MONTAG_LC, DIENSTAG_LC, MITTWOCH_LC, DONNERSTAG_LC, FREITAG_LC}

Digits == <<"0", "1", "2", "3", "4", "5", "6", "7", "8", "9">>

IsDigit(c) == \E i \in 1..10 : Digits[i] = c

DigitValue(c) == (CHOOSE i \in 1..10 : Digits[i] = c) - 1

\* str(n) for an int n >= 0
RECURSIVE IntToStr(_)
IntToStr(n) ==
    IF n < 10 THEN <<Digits[n + 1]>> ELSE Append(IntToStr(n \div 10), Digits[(n % 10) + 1])

\* str(x)
Str(x) == IF x.t = "int" THEN IntToStr(x.n) ELSE x.s

\* Mutant: the cell text is not stripped.
norm_cell_no_strip(x) ==
    IF x.t = "None" THEN PyNone
    ELSE IF x.t = "nan" THEN PyNone
    ELSE LET s == Str(x)
         IN  IF s # <<>> THEN PyStr(s) ELSE PyNone

\* A non-empty stripped text, or None.
norm_cell(x) ==
    IF x.t = "None" THEN PyNone
    ELSE IF x.t = "nan" THEN PyNone
    ELSE LET s == Strip(Str(x))
         IN  IF s # <<>> THEN PyStr(s) ELSE PyNone

\* Truthiness of a norm_cell result.
Present(v) == v.t = "str"

\* s.replace(" ", "")
RemoveSpaces(s) == SelectSeq(s, LAMBDA c : c # " ")

\* Length of the longest prefix of s matching \d* and \s*.
RECURSIVE DigitRun(_)
DigitRun(s) == IF s # <<>> /\ IsDigit(Head(s)) THEN 1 + DigitRun(Tail(s)) ELSE 0

RECURSIVE SpaceRun(_)
SpaceRun(s) == IF s # <<>> /\ IsSpace(Head(s)) THEN 1 + SpaceRun(Tail(s)) ELSE 0

\* s[n:]
Drop(s, n) == SubSeq(s, n + 1, Len(s))

\* int(digits)
RECURSIVE IntValue(_)
IntValue(ds) ==
    IF ds = <<>> THEN 0
    ELSE 10 * IntValue(SubSeq(ds, 1, Len(ds) - 1)) + DigitValue(ds[Len(ds)])

\* The fraction digits without trailing zeros.
RECURSIVE TrimZeros(_)
TrimZeros(ds) ==
    IF ds # <<>> /\ ds[Len(ds)] = "0" THEN TrimZeros(SubSeq(ds, 1, Len(ds) - 1)) ELSE ds

\* float(text) of digits [. digits]: the whole part and the fraction digits.
Float(whole, frac) == [whole |-> IntValue(whole), frac |-> TrimZeros(frac)]

\* Mutant: the text is matched as it is spelled, upper case included.
parse_amount_case_sensitive(text) ==
    IF ~Present(text) THEN PyNone
    ELSE LET s      == RemoveSpaces(Strip(text.s))
             n1     == DigitRun(s)
             r1     == Drop(s, n1)
             n2     == IF r1 # <<>> /\ Head(r1) = "." THEN DigitRun(Tail(r1)) ELSE 0
             frac   == IF n2 > 0 THEN SubSeq(r1, 2, n2 + 1) ELSE <<>>
             r2     == IF n2 > 0 THEN Drop(r1, n2 + 1) ELSE r1
             unit   == Drop(r2, SpaceRun(r2))
         IN  IF n1 = 0 THEN PyNone
             ELSE IF unit = <<"g">>
                  THEN [t |-> "dict", value |-> Float(SubSeq(s, 1, n1), frac), unit |-> "g"]
             ELSE IF unit = <<"m", "l">>
                  THEN [t |-> "dict", value |-> Float(SubSeq(s, 1, n1), frac), unit |-> "ml"]
             ELSE PyNone

\* re.match(r"^(\d+(?:\.\d+)?)\s*(g|ml)$", s) on
\* s = text.strip().lower().replace(" ", "")
parse_amount(text) ==
    IF ~Present(text) THEN PyNone
    ELSE LET s      == RemoveSpaces(Lower(Strip(text.s)))
             n1     == DigitRun(s)
             r1     == Drop(s, n1)
             n2     == IF r1 # <<>> /\ Head(r1) = "." THEN DigitRun(Tail(r1)) ELSE 0
             frac   == IF n2 > 0 THEN SubSeq(r1, 2, n2 + 1) ELSE <<>>
             r2     == IF n2 > 0 THEN Drop(r1, n2 + 1) ELSE r1
             unit   == Drop(r2, SpaceRun(r2))
         IN  IF n1 = 0 THEN PyNone
             ELSE IF unit = <<"g">>
                  THEN [t |-> "dict", value |-> Float(SubSeq(s, 1, n1), frac), unit |-> "g"]
             ELSE IF unit = <<"m", "l">>
                  THEN [t |-> "dict", value |-> Float(SubSeq(s, 1, n1), frac), unit |-> "ml"]
             ELSE PyNone

\* Mutant: the hyphen of a wrapped word is kept.
join_hyphen_keeps_hyphen(prev, curr) ==
    IF prev # <<>> /\ prev[Len(prev)] = "-"
    THEN prev \o curr
    ELSE prev \o <<" ">> \o curr

join_hyphen(prev, curr) ==
    IF prev # <<>> /\ prev[Len(prev)] = "-"
    THEN SubSeq(prev, 1, Len(prev) - 1) \o curr
    ELSE prev \o <<" ">> \o curr

\* norm_cell(row[col]) if col < len(row) else None
CellAt(row, col) == IF col < Len(row) THEN norm_cell(row[col + 1]) ELSE PyNone

\* The locals of parse_block before its loop.
BlockStart == [items |-> <<>>, current |-> PyNone]

\* Mutant: a row without a name sets the portion of the open dish even when
\* the dish has one.
parse_block_row_overwrites(st, row, name_col, amount_col, notes_col) ==
    LET name   == CellAt(row, name_col)
        amount == CellAt(row, amount_col)
        notes  == CellAt(row, notes_col)
        open   == st.current # PyNone
    IN  IF ~Present(name) /\ ~Present(amount) /\ ~Present(notes)
        THEN st
        ELSE IF Present(name) /\ open /\ ~Present(amount) /\ ~Present(notes)
        THEN [st EXCEPT !.current.raw_text = join_hyphen(@, name.s)]
        ELSE IF Present(name)
        THEN [items   |-> IF open THEN Append(st.items, st.current) ELSE st.items,
              current |-> [raw_text |-> name.s,
                           portion  |-> parse_amount(amount),
                           notes    |-> IF Present(notes) THEN <<notes.s>> ELSE <<>>,
                           links    |-> Links(None, None, None),
                           tags     |-> PyList(<<>>)]]
        ELSE IF ~open THEN st
        ELSE [st EXCEPT
                !.current.portion =
                    IF Present(amount) THEN parse_amount(amount) ELSE @,
                !.current.notes =
                    IF Present(notes) THEN Append(@, notes.s) ELSE @]

\* One iteration of the loop of parse_block.
parse_block_row(st, row, name_col, amount_col, notes_col) ==
    LET name   == CellAt(row, name_col)
        amount == CellAt(row, amount_col)
        notes  == CellAt(row, notes_col)
        open   == st.current # PyNone
    IN  IF ~Present(name) /\ ~Present(amount) /\ ~Present(notes)
        THEN st
        ELSE IF Present(name) /\ open /\ ~Present(amount) /\ ~Present(notes)
        THEN [st EXCEPT !.current.raw_text = join_hyphen(@, name.s)]
        ELSE IF Present(name)
        THEN [items   |-> IF open THEN Append(st.items, st.current) ELSE st.items,
              current |-> [raw_text |-> name.s,
                           portion  |-> parse_amount(amount),
                           notes    |-> IF Present(notes) THEN <<notes.s>> ELSE <<>>,
                           links    |-> Links(None, None, None),
                           tags     |-> PyList(<<>>)]]
        ELSE IF ~open THEN st
        ELSE [st EXCEPT
                !.current.portion =
                    IF Present(amount) /\ @ = PyNone THEN parse_amount(amount) ELSE @,
                !.current.notes =
                    IF Present(notes) THEN Append(@, notes.s) ELSE @]

\* Mutant: the dish still open after the last row is not emitted.
parse_block_end_drops_open(st) ==
    SelectSeq(st.items, LAMBDA it : it.raw_text # <<>>)

\* The end of parse_block: the open dish is emitted, items without text are
\* dropped.
parse_block_end(st) ==
    SelectSeq(IF st.current # PyNone THEN Append(st.items, st.current) ELSE st.items,
              LAMBDA it : it.raw_text # <<>>)

RECURSIVE parse_block_loop(_, _, _, _, _)
parse_block_loop(st, block_df, name_col, amount_col, notes_col) ==
    IF block_df = <<>> THEN st
    ELSE parse_block_loop(
             parse_block_row(st, Head(block_df), name_col, amount_col, notes_col),
             Tail(block_df), name_col, amount_col, notes_col)

parse_block(block_df, name_col, amount_col, notes_col) ==
    parse_block_end(parse_block_loop(BlockStart, block_df, name_col, amount_col, notes_col))

\* v and v.lower() in DAYS, for v = norm_cell(df.loc[i, 0])
IsDayRow(row) ==
    LET v == norm_cell(row[1])
    IN  Present(v) /\ Lower(v.s) \in DAYS

\* The indices of the day rows, in row order (rows are numbered from 1).
find_day_rows(df) == SelectSeq([i \in 1..Len(df) |-> i], LAMBDA i : IsDayRow(df[i]))

\* Mutant: every block runs to the end of the table.
block_of_to_table_end(df, drows, idx) ==
    LET start == drows[idx]
        blk   == SubSeq(df, start, Len(df))
    IN  [blk EXCEPT ![1][1] = PyNone]

\* df.iloc[start:end].copy() with its weekday cell set to None, where end is
\* the next day row or len(df).
block_of(df, drows, idx) ==
    LET start == drows[idx]
        end   == IF idx + 1 <= Len(drows) THEN drows[idx + 1] ELSE Len(df) + 1
        blk   == SubSeq(df, start, end - 1)
    IN  [blk EXCEPT ![1][1] = PyNone]

\* The day appended to plan["days"] for day row idx.
build_day(df, drows, idx) ==
    LET blk == block_of(df, drows, idx)
    IN  [date    |-> None,
         weekday |-> norm_cell(df[drows[idx]][1]),
         menus   |-> <<Menu(PyStr(MISCHKOST), parse_block(blk, 1, 2, 3)),
                       Menu(PyStr(VEGETARISCH), parse_block(blk, 4, 5, 6)),
                       Menu(PyStr(DESSERT), parse_block(blk, 7, 8, 9))>>]

\* The plan after the loop over day_rows.
build_plan(df, drows) == Plan([idx \in 1..Len(drows) |-> build_day(df, drows, idx)])

\* Mutant: the menus are counted, not their items.
total_items_counts_menus(p) ==
    Sum([d \in 1..Len(p.days) |-> Len(p.days[d].menus)])

total_items(p) ==
    Sum([d \in 1..Len(p.days) |->
        Sum([m \in 1..Len(p.days[d].menus) |-> Len(p.days[d].menus[m].items)])])

Return(value) == [t |-> "return", value |-> value]

-----------------------------------------------------------------------------
(* parse_block, row by row, on one block of name / portion / notes cells *)

NUDEL_HYPHEN == <<"N", "u", "d", "e", "l", "-">>
AUFLAUF      == <<"a", "u", "f", "l", "a", "u", "f">>
NUDELAUFLAUF == <<"N", "u", "d", "e", "l", "a", "u", "f", "l", "a", "u", "f">>
BLANKS       == <<" ", " ">>
PORTION_5G   == <<"5", " ", "g">>
PORTION_9ML  == <<"9", "m", "l">>
NOTE_N       == <<"n">>

\* The rows of a block: a name, a portion and a notes cell each.
BlockRows ==
    {<<name, amount, notes>> :
        name   \in {NaN, Cell(NUDEL_HYPHEN), Cell(AUFLAUF), Cell(BLANKS)},
        amount \in {NaN, Cell(PORTION_5G), Cell(PORTION_9ML)},
        notes  \in {NaN, Cell(NOTE_N)}}

InitBlock ==
    /\ rows = <<>>
    /\ block = BlockStart
    /\ items = NotRun
    /\ plan = Idle
    /\ IdleNorm /\ IdleEval /\ IdleCount /\ IdleRule /\ IdleParse
    /\ IdleMatch /\ IdleEnrich
    /\ IdleAmount /\ IdleUpload

\* One iteration of `for _, row in block_df.iterrows()`.
ParseBlockRow(row) ==
    /\ items = NotRun
    /\ Len(rows) < MaxBlockRows
    /\ rows' = Append(rows, row)
    /\ block' = parse_block_row(block, row, 0, 1, 2)
    /\ UNCHANGED <<plan, normVars, evalVars, ruleVars, items, parseVars, matchVars,
                 enrichVars,
                   amountVars, uploadVars>>

\* The end of the loop and the return of parse_block.
ParseBlockEnd ==
    /\ items = NotRun
    /\ items' = Return(parse_block_end(block))
    /\ UNCHANGED <<plan, normVars, evalVars, ruleVars, rows, block, parseVars, matchVars,
                 enrichVars,
                   amountVars, uploadVars>>

NextBlock == (\E row \in BlockRows : ParseBlockRow(row)) \/ ParseBlockEnd

SpecBlock == InitBlock /\ [][NextBlock]_vars

\* C8: every item that parse_block returns has a raw_text that is not empty,
\* also after trimming, whatever rows the block holds.
C8_RawTextNonEmpty ==
    items # NotRun =>
        \A i \in 1..Len(items.value) :
            /\ items.value[i].raw_text # <<>>
            /\ Strip(items.value[i].raw_text) # <<>>

\* C8 witness: a block whose rows include a blank name, an empty row and a
\* backfill row has been parsed, and one item came out.
C8_Witness ==
    /\ items # NotRun
    /\ Len(items.value) = 1
    /\ Len(rows) = 3
    /\ rows[1] = <<Cell(BLANKS), Cell(PORTION_5G), NaN>>
    /\ rows[2] = <<Cell(AUFLAUF), NaN, NaN>>
    /\ rows[3] = <<NaN, NaN, Cell(NOTE_N)>>

\* A row with a name and neither portion nor notes.
NameOnly(row) ==
    /\ Present(norm_cell(row[1]))
    /\ ~Present(norm_cell(row[2]))
    /\ ~Present(norm_cell(row[3]))

EndsWithHyphen(text) == text # <<>> /\ text[Len(text)] = "-"

\* C9: while a dish is open, a row with a name and no portion and no notes
\* emits no item and appends its text to the open dish's raw_text: the two
\* texts joined without the hyphen when the text so far ends in a hyphen,
\* and joined by one space otherwise. The rows "Nudel-", "auflauf" give the
\* single item "Nudelauflauf".
C9_ContinuationMerge ==
    /\ [][(Len(rows') = Len(rows) + 1 /\ block.current # PyNone
             /\ NameOnly(rows'[Len(rows')]))
          => LET prev == block.current.raw_text
                 text == norm_cell(rows'[Len(rows')][1]).s
             IN  /\ block'.items = block.items
                 /\ block'.current = [block.current EXCEPT !.raw_text = block'.current.raw_text]
                 /\ EndsWithHyphen(prev) =>
                      block'.current.raw_text = SubSeq(prev, 1, Len(prev) - 1) \o text
                 /\ ~EndsWithHyphen(prev) =>
                      block'.current.raw_text = prev \o <<" ">> \o text
                 /\ Len(block'.current.raw_text)
                      = Len(prev) + Len(text) + (IF EndsWithHyphen(prev) THEN -1 ELSE 1)
         ]_vars
    /\ []((items # NotRun
             /\ rows = << <<Cell(NUDEL_HYPHEN), NaN, NaN>>, <<Cell(AUFLAUF), NaN, NaN>> >>)
          => (Len(items.value) = 1 /\ items.value[1].raw_text = NUDELAUFLAUF))

\* C9 witness: the rows "Nudel-", "auflauf" have been parsed into one item.
C9_Witness ==
    /\ rows = << <<Cell(NUDEL_HYPHEN), NaN, NaN>>, <<Cell(AUFLAUF), NaN, NaN>> >>
    /\ items # NotRun
    /\ Len(items.value) = 1
    /\ items.value[1].raw_text = NUDELAUFLAUF

\* A row without a name that has a portion or a notes cell.
BackfillRow(row) ==
    /\ ~Present(norm_cell(row[1]))
    /\ Present(norm_cell(row[2])) \/ Present(norm_cell(row[3]))

\* C25: a row without a name that has a portion or a note changes nothing
\* when no dish is open; while a dish is open it emits no item, leaves the
\* dish's text alone, sets the dish's portion only when the dish has none
\* (a portion already set stays as it is), and appends its note, if it has
\* one, to the end of the dish's notes.
C25_Backfill ==
    [][(Len(rows') = Len(rows) + 1 /\ BackfillRow(rows'[Len(rows')]))
          => LET row    == rows'[Len(rows')]
                 amount == norm_cell(row[2])
                 notes  == norm_cell(row[3])
             IN  IF block.current = PyNone THEN block' = block
                 ELSE /\ block'.items = block.items
                      /\ block'.current # PyNone
                      /\ block'.current.raw_text = block.current.raw_text
                      /\ block.current.portion # PyNone =>
                             block'.current.portion = block.current.portion
                      /\ (block.current.portion = PyNone /\ Present(amount)) =>
                             block'.current.portion = parse_amount(amount)
                      /\ (block.current.portion = PyNone /\ ~Present(amount)) =>
                             block'.current.portion = PyNone
                      /\ Present(notes) =>
                             block'.current.notes = Append(block.current.notes, notes.s)
                      /\ ~Present(notes) =>
                             block'.current.notes = block.current.notes
      ]_vars

\* C25 witness: a dish with the portion 5 g and a note was followed by a
\* row with only the portion 9 ml and a note: the dish keeps 5 g and has
\* two notes, and parse_block returned the one item.
C25_Witness ==
    /\ rows = << <<Cell(AUFLAUF), Cell(PORTION_5G), Cell(NOTE_N)>>,
                 <<NaN, Cell(PORTION_9ML), Cell(NOTE_N)>> >>
    /\ items # NotRun
    /\ Len(items.value) = 1
    /\ items.value[1].portion = parse_amount(Cell(PORTION_5G))
    /\ items.value[1].portion # parse_amount(Cell(PORTION_9ML))
    /\ items.value[1].notes = <<NOTE_N, NOTE_N>>

\* A row with a name.
NameBearing(row) == Present(norm_cell(row[1]))

\* The rows that start a dish: the rows with a name that have a portion or a
\* notes cell or that no row with a name precedes.
StartingRows(rs) ==
    SelectSeq([i \in 1..Len(rs) |-> i],
              LAMBDA i : /\ NameBearing(rs[i])
                         /\ \/ Present(norm_cell(rs[i][2]))
                            \/ Present(norm_cell(rs[i][3]))
                            \/ \A j \in 1..(i - 1) : ~NameBearing(rs[j]))

\* t begins with the text p, a final hyphen of p left aside (a continuation
\* removes it).
BeginsWith(t, p) ==
    LET stem == IF EndsWithHyphen(p) THEN SubSeq(p, 1, Len(p) - 1) ELSE p
    IN  Len(stem) <= Len(t) /\ SubSeq(t, 1, Len(stem)) = stem

\* C26: a dish is open exactly when a row with a name has been read, so an
\* open dish never closes without a successor; parse_block returns one item
\* per starting row, in the order of the starting rows, each beginning with
\* the name of its starting row.
C26_ItemCount ==
    /\ (block.current # PyNone) <=> (\E i \in 1..Len(rows) : NameBearing(rows[i]))
    /\ Len(block.items) + (IF block.current # PyNone THEN 1 ELSE 0)
           = Len(StartingRows(rows))
    /\ items # NotRun =>
           LET starts == StartingRows(rows)
           IN  /\ Len(items.value) = Len(starts)
               /\ \A k \in 1..Len(starts) :
                      BeginsWith(items.value[k].raw_text,
                                 norm_cell(rows[starts[k]][1]).s)

\* C26 witness: of three rows the first has a name only, the second is a
\* continuation and the third starts a dish with a portion: two items came
\* out, in row order.
C26_Witness ==
    /\ items # NotRun
    /\ Len(rows) = 3
    /\ rows[1] = <<Cell(NUDEL_HYPHEN), NaN, NaN>>
    /\ rows[2] = <<Cell(AUFLAUF), NaN, NaN>>
    /\ rows[3] = <<Cell(AUFLAUF), Cell(PORTION_5G), NaN>>
    /\ Len(items.value) = 2
    /\ items.value[1].raw_text = NUDELAUFLAUF
    /\ items.value[2].raw_text = AUFLAUF

-----------------------------------------------------------------------------
(* parse_foodplan_xlsx on a sheet of rows of ten cells *)

MONTAG_CELL  == Cell(MONTAG)
FREITAG_CELL == Cell(<<" ", "F", "R", "E", "I", "T", "A", "G", " ">>)
TAG_CELL     == Cell(<<"T", "a", "g">>)
DISH_A       == <<"a">>
DISH_B       == <<"b">>

\* The nine cells right of column 0: empty, a name-only dish on one of the
\* three lines, or a dish with notes on the dessert line.
RowContents ==
    {<<NaN, NaN, NaN, NaN, NaN, NaN, NaN, NaN, NaN>>,
     <<Cell(DISH_A), NaN, NaN, NaN, NaN, NaN, NaN, NaN, NaN>>,
     <<NaN, NaN, NaN, Cell(DISH_A), NaN, NaN, NaN, NaN, NaN>>,
     <<NaN, NaN, NaN, NaN, NaN, NaN, Cell(DISH_B), NaN, Cell(NOTE_N)>>}

\* Column 0 is empty or names a weekday; one row holds another text there.
SheetRows ==
    {<<c0>> \o rest : c0 \in {NaN, MONTAG_CELL, FREITAG_CELL}, rest \in RowContents}
    \cup {<<TAG_CELL, Cell(DISH_A), NaN, NaN, NaN, NaN, NaN, NaN, NaN, NaN>>}

\* The sheets of at most n rows.
Sheets(n) == SeqsUpTo(SheetRows, n)

InitParse ==
    /\ table \in Sheets(MaxRows)
    /\ pc = "find_day_rows"
    /\ day_rows = <<>>
    /\ building = NotRun
    /\ parsed = NotRun
    /\ plan = Idle
    /\ IdleNorm /\ IdleEval /\ IdleCount /\ IdleRule /\ IdleBlock
    /\ IdleMatch /\ IdleEnrich
    /\ IdleAmount /\ IdleUpload

\* Lines 128-136: the scan of column 0 and the first fatal condition.
FindDayRows ==
    /\ pc = "find_day_rows"
    /\ day_rows' = find_day_rows(table)
    /\ IF day_rows' = <<>>
       THEN /\ parsed' = Raise("RuntimeError", "Keine Tageszeilen")
            /\ pc' = "raised"
       ELSE /\ parsed' = parsed
            /\ pc' = "build_plan"
    /\ UNCHANGED <<plan, normVars, evalVars, ruleVars, blockVars, table, building, matchVars,
                 enrichVars,
                   amountVars, uploadVars>>

\* Lines 142-176: the plan and its days.
BuildPlan ==
    /\ pc = "build_plan"
    /\ building' = build_plan(table, day_rows)
    /\ pc' = "total_items"
    /\ UNCHANGED <<plan, normVars, evalVars, ruleVars, blockVars, table, day_rows, parsed, matchVars,
                 enrichVars,
                   amountVars, uploadVars>>

\* Lines 178-189: the second fatal condition, or the return.
CheckTotalItems ==
    /\ pc = "total_items"
    /\ IF total_items(building) = 0
       THEN /\ parsed' = Raise("RuntimeError", "0 Items extrahiert")
            /\ pc' = "raised"
       ELSE /\ parsed' = Return(building)
            /\ pc' = "returned"
    /\ UNCHANGED <<plan, normVars, evalVars, ruleVars, blockVars, table, day_rows, building, matchVars,
                 enrichVars,
                   amountVars, uploadVars>>

NextParse == FindDayRows \/ BuildPlan \/ CheckTotalItems

SpecParse == InitParse /\ [][NextParse]_vars

\* A row whose column-0 text, trimmed and compared case-insensitively, is a
\* weekday label.
WeekdayRow(i) ==
    /\ table[i][1].t = "str"
    /\ Lower(Strip(table[i][1].s)) \in DAYS

WeekdayRows == {i \in 1..Len(table) : WeekdayRow(i)}

\* A non-blank name cell of one of the three lines in or below a weekday row.
NamedDish(i) ==
    /\ \E j \in WeekdayRows : j <= i
    /\ \E col \in {2, 5, 8} : table[i][col].t = "str" /\ Strip(table[i][col].s) # <<>>

\* C7: parse_foodplan_xlsx raises its format error exactly when column 0 has
\* no weekday row or the parsed plan has no item at all; without a weekday
\* row the error is raised before a plan is constructed; a call that raises
\* returns nothing.
C7_FormatMismatch ==
    pc \in {"raised", "returned"} =>
        /\ (pc = "raised") <=> (WeekdayRows = {} \/ ~\E i \in 1..Len(table) : NamedDish(i))
        /\ (pc = "raised") <=> (parsed.t = "error")
        /\ parsed.t = "error" => parsed.exception = "RuntimeError"
        /\ (pc = "raised" /\ WeekdayRows = {}) => building = NotRun
        /\ (pc = "raised" /\ WeekdayRows # {}) =>
              (building # NotRun /\ total_items(building) = 0)
        /\ pc = "returned" => (parsed = Return(building) /\ total_items(building) > 0)

\* C7 witness: a sheet with weekday rows and no dish has been rejected after
\* its plan of two empty days was built.
C7_Witness ==
    /\ pc = "raised"
    /\ Len(table) = 3
    /\ WeekdayRows = {1, 3}
    /\ building # NotRun
    /\ Len(building.days) = 2
    /\ parsed.t = "error"

\* The k-th weekday row, in row order, and the row that ends its block.
RECURSIVE NthOf(_, _)
NthOf(S, k) ==
    LET least == CHOOSE i \in S : \A j \in S : i <= j
    IN  IF k = 1 THEN least ELSE NthOf(S \ {least}, k - 1)

BlockEnd(start) ==
    IF \E j \in WeekdayRows : j > start
    THEN (CHOOSE j \in WeekdayRows : j > start /\ \A h \in WeekdayRows : h > start => j <= h) - 1
    ELSE Len(table)

\* C10: a returned plan has one day per weekday row, in row order, with the
\* trimmed column-0 text as weekday; every day has the menus mischkost
\* (columns 1-3), vegetarisch (4-6), dessert (7-9) in this order; the items of
\* a menu are those of the rows from the day's weekday row up to the row
\* before the next weekday row (or the last row), read in that menu's
\* columns only.
C10_DaysAndBlocks ==
    pc = "returned" =>
        LET p == parsed.value
        IN  /\ Len(p.days) = Cardinality(WeekdayRows)
            /\ \A k \in 1..Len(p.days) :
                 LET start == NthOf(WeekdayRows, k)
                     blk   == SubSeq(table, start, BlockEnd(start))
                     day   == p.days[k]
                 IN  /\ day.weekday = PyStr(Strip(table[start][1].s))
                     /\ Len(day.menus) = 3
                     /\ day.menus[1].menu_type = PyStr(MISCHKOST)
                     /\ day.menus[2].menu_type = PyStr(VEGETARISCH)
                     /\ day.menus[3].menu_type = PyStr(DESSERT)
                     /\ \A m \in 1..3 :
                          /\ day.menus[m].items
                               = parse_block(blk, 3 * m - 2, 3 * m - 1, 3 * m)
                          /\ Len(day.menus[m].items)
                               <= Cardinality({i \in 1..Len(blk) :
                                      blk[i][3 * m - 1].t = "str"})

\* C10 witness: two day blocks, each with a name-only dish on the mischkost
\* line; the second dish is not merged into the first.
C10_Witness ==
    /\ pc = "returned"
    /\ Len(table) = 3
    /\ WeekdayRows = {1, 3}
    /\ Len(parsed.value.days) = 2
    /\ parsed.value.days[1].weekday = PyStr(MONTAG)
    /\ Len(parsed.value.days[1].menus[1].items) = 1
    /\ parsed.value.days[1].menus[1].items[1].raw_text = DISH_A
    /\ Len(parsed.value.days[1].menus[2].items) = 1
    /\ Len(parsed.value.days[2].menus[1].items) = 1
    /\ parsed.value.days[2].menus[1].items[1].raw_text = DISH_A

-----------------------------------------------------------------------------
(* parse_amount on its own *)

TXT_200G     == <<"2", "0", "0", "g">>
TXT_200_G    == <<"2", "0", "0", " ", "g">>
TXT_120_ML   == <<"1", "2", "0", " ", "M", "L">>
TXT_2_5G     == <<"2", ".", "5", "g">>
TXT_2COMMA5G == <<"2", ",", "5", " ", "g">>
TWO_HUNDRED_GRAMS ==
    <<"t", "w", "o", " ", "h", "u", "n", "d", "r", "e", "d", " ", "g", "r", "a", "m", "s">>

AmountAlphabet == {"2", "0", ".", "g", "G", "m", "l", " ", "\t", "x"}

\* Cell texts of at most n characters, and the texts of the docstring.
AmountTexts(n) ==
    SeqsUpTo(AmountAlphabet, n)
    \cup {TXT_200G, TXT_200_G, TXT_120_ML, TXT_2_5G, TXT_2COMMA5G, TWO_HUNDRED_GRAMS}

InitAmount ==
    /\ portion_text \in {PyNone} \cup {PyStr(t) : t \in AmountTexts(MaxTextLen)}
    /\ portion_res = NotRun
    /\ plan = Idle
    /\ IdleNorm /\ IdleEval /\ IdleCount /\ IdleRule /\ IdleBlock /\ IdleParse
    /\ IdleMatch /\ IdleEnrich /\ IdleUpload

\* One call of parse_amount.
ParseAmount ==
    /\ portion_res = NotRun
    /\ portion_res' = Return(parse_amount(portion_text))
    /\ UNCHANGED <<plan, normVars, evalVars, ruleVars, blockVars, parseVars, matchVars,
                   enrichVars, portion_text, uploadVars>>

NextAmount == ParseAmount

SpecAmount == InitAmount /\ [][NextAmount]_vars

\* The text without its blanks and in lower case.
Squeezed(t) == SelectSeq([i \in 1..Len(t) |-> LowerChar(t[i])], LAMBDA c : c # " ")

AllDigits(t) == t # <<>> /\ \A i \in 1..Len(t) : t[i] \in {"0", "2", "1", "5"}

\* t is a number: digits, or digits, a point and digits.
IsNumber(t) ==
    \/ AllDigits(t)
    \/ \E k \in 2..(Len(t) - 1) :
          /\ t[k] = "."
          /\ AllDigits(SubSeq(t, 1, k - 1))
          /\ AllDigits(SubSeq(t, k + 1, Len(t)))

\* The splits of the squeezed text into a number, white space and a unit,
\* white space around them left aside.
PortionSplits(t) ==
    LET q == Squeezed(t)
    IN  {sp \in (0..Len(q)) \X (0..Len(q)) \X (0..Len(q)) \X (0..Len(q)) :
            /\ sp[1] < sp[2] /\ sp[2] <= sp[3] /\ sp[3] < sp[4]
            /\ \A i \in 1..sp[1] : q[i] = "\t"
            /\ IsNumber(SubSeq(q, sp[1] + 1, sp[2]))
            /\ \A i \in (sp[2] + 1)..sp[3] : q[i] = "\t"
            /\ SubSeq(q, sp[3] + 1, sp[4]) \in {<<"g">>, <<"m", "l">>}
            /\ \A i \in (sp[4] + 1)..Len(q) : q[i] = "\t"}

\* The whole part of a number text, as an integer.
RECURSIVE WholePart(_)
WholePart(t) ==
    IF t = <<>> \/ t[1] = "." THEN 0
    ELSE LET rest == Tail(t)
             RECURSIVE Pow(_)
             Pow(r) == IF r = <<>> \/ r[1] = "." THEN 1 ELSE 10 * Pow(Tail(r))
         IN  (CASE t[1] = "0" -> 0 [] t[1] = "1" -> 1 [] t[1] = "2" -> 2 [] t[1] = "5" -> 5)
                 * Pow(rest) + WholePart(rest)

\* C24: "200g" and "200 g" parse to value 200 with unit g; a text that is,
\* blanks and case left aside, a number followed by g or ml parses to that
\* unit and the number's whole part; every other text, and an empty cell,
\* parses to null; no call raises.
C24_PortionParsing ==
    portion_res # NotRun =>
        /\ portion_res.t = "return"
        /\ portion_text \in {PyStr(TXT_200G), PyStr(TXT_200_G)} =>
               portion_res.value
                   = [t |-> "dict", value |-> [whole |-> 200, frac |-> <<>>], unit |-> "g"]
        /\ portion_text = PyStr(TWO_HUNDRED_GRAMS) => portion_res.value = PyNone
        /\ portion_text = PyNone => portion_res.value = PyNone
        /\ portion_text # PyNone =>
               LET sps == PortionSplits(portion_text.s)
                   q   == Squeezed(portion_text.s)
               IN  IF sps = {} THEN portion_res.value = PyNone
                   ELSE \A sp \in sps :
                          /\ portion_res.value.t = "dict"
                          /\ portion_res.value.unit
                                = (IF SubSeq(q, sp[3] + 1, sp[4]) = <<"g">> THEN "g" ELSE "ml")
                          /\ portion_res.value.value.whole
                                = WholePart(SubSeq(q, sp[1] + 1, sp[2]))

\* C24 witness: "120 ML" has been parsed to 120 ml.
C24_Witness ==
    /\ portion_text = PyStr(TXT_120_ML)
    /\ portion_res # NotRun
    /\ portion_res.value
           = [t |-> "dict", value |-> [whole |-> 120, frac |-> <<>>], unit |-> "ml"]

-----------------------------------------------------------------------------
(* backend/scripts/enrich_foodplan.py: text normalisation and tokenisation  *)
(*                                                                         *)
(* A text is a sequence of characters. A character outside ASCII is named: *)

AE        == "a-umlaut"
OE        == "o-umlaut"
UE        == "u-umlaut"
UE_CAP    == "U-umlaut"
SZ        == "eszett"
E_ACUTE   == "e-acute"
DOTLESS_I == "dotless-i"           \* U+0131
DS_N      == "double-struck-N"     \* U+2115
NBSP      == "no-break-space"      \* U+00A0

STOPWORDS ==
    {<<"m", "i", "t">>,
     <<"u", "n", "d">>,
     <<"i", "n">>,
     <<"v", "o", "m">>,
     <<"v", "o", "n">>,
     <<"n", "a", "c", "h">>,
     <<"a", "r", "t">>,
     <<"i", "m">>,
     <<"a", "n">>,
     <<"d", "e", "r">>,
     <<"d", "i", "e">>,
     <<"d", "a", "s">>,
     <<"a", "u", "f">>,
     <<"f", UE, "r">>,
     <<"z", "u">>,
     <<"o", "d", "e", "r">>,
     <<"s", "o", "w", "i", "e">>,
     <<"i", "n", "k", "l">>,
     <<"i", "n", "k", "l", ".">>,
     <<"c", "a">>,
     <<"c", "a", ".">>,
     <<"t", "k">>,
     <<"b", "i", "o">>}

AsciiLower ==
    {"a", "b", "c", "d", "e", "f", "g", "h", "i", "j", "k", "l", "m", "n", "o",
     "p", "q", "r", "s", "t", "u", "v", "w", "x", "y", "z"}

\* Unicode whitespace, as str.strip() and \s see it.
IsWhitespace(c) == IsSpace(c) \/ c = NBSP

\* str.lower for one character; U+2115 has no lower-case mapping.
str_lower(c) == IF c = UE_CAP THEN UE ELSE LowerChar(c)

RECURSIVE LStripU(_)
LStripU(s) == IF s # <<>> /\ IsWhitespace(Head(s)) THEN LStripU(Tail(s)) ELSE s

RECURSIVE RStripU(_)
RStripU(s) ==
    IF s # <<>> /\ IsWhitespace(s[Len(s)]) THEN RStripU(SubSeq(s, 1, Len(s) - 1)) ELSE s

StripU(s) == RStripU(LStripU(s))

\* unicodedata.normalize("NFKC", c) for one character.
NFKC(c) == IF c = DS_N THEN "N" ELSE IF c = NBSP THEN " " ELSE c

\* re.sub(r"\s+", " ", s)
RECURSIVE CollapseSpaces(_)
CollapseSpaces(s) ==
    IF s = <<>> THEN <<>>
    ELSE IF IsWhitespace(Head(s))
         THEN <<" ">> \o CollapseSpaces(LStripU(Tail(s)))
         ELSE <<Head(s)>> \o CollapseSpaces(Tail(s))

normalize_text(s) ==
    IF s = <<>> THEN <<>>
    ELSE LET stripped == StripU(s)
             lowered  == [i \in 1..Len(stripped) |-> str_lower(stripped[i])]
             nfkc     == [i \in 1..Len(lowered) |-> NFKC(lowered[i])]
         IN  CollapseSpaces(nfkc)

\* A character that [a-z0-9äöüß] matches under re.IGNORECASE: the class
\* itself, the other case of its letters, and the letters whose case folding
\* falls into a-z (of these the model has U+0131).
InClassIgnoreCase(c) ==
    \/ str_lower(c) \in AsciiLower
    \/ IsDigit(c)
    \/ str_lower(c) \in {AE, OE, UE, SZ}
    \/ c = DOTLESS_I

\* re.split(r"[^a-z0-9äöüß]+", s, flags=re.IGNORECASE): the pieces between
\* the separator runs, an empty piece at either end included.
RECURSIVE SkipSeparators(_)
SkipSeparators(s) ==
    IF s # <<>> /\ ~InClassIgnoreCase(Head(s)) THEN SkipSeparators(Tail(s)) ELSE s

RECURSIVE re_split(_, _)
re_split(s, piece) ==
    IF s = <<>> THEN <<piece>>
    ELSE IF InClassIgnoreCase(Head(s))
         THEN re_split(Tail(s), Append(piece, Head(s)))
         ELSE <<piece>> \o re_split(SkipSeparators(Tail(s)), <<>>)

\* Mutant: stop words are kept.
tokenize_keeps_stopwords(s) ==
    LET raw_tokens == re_split(normalize_text(s), <<>>)
        Keep(t)    == StripU(t) # <<>>
    IN  SelectSeq([i \in 1..Len(raw_tokens) |-> StripU(raw_tokens[i])], Keep)

tokenize(s) ==
    LET raw_tokens == re_split(normalize_text(s), <<>>)
        Keep(t)    == StripU(t) # <<>> /\ StripU(t) \notin STOPWORDS
    IN  SelectSeq([i \in 1..Len(raw_tokens) |-> StripU(raw_tokens[i])], Keep)

-----------------------------------------------------------------------------
(* enrich_foodplan.py: keyword matching                                     *)
(*                                                                         *)
(* A keyword catalog (Dict[str, List[str]]) is the sequence of its          *)
(* (key, keywords) pairs in the dict's iteration order; a keyword is a text.*)
(* A float that the code computes as a quotient of two ints is the pair of  *)
(* its numerator and denominator in lowest terms.                           *)

RECURSIVE GCD(_, _)
GCD(a, b) == IF b = 0 THEN a ELSE GCD(b, a % b)

\* n / d as a float (d > 0)
Quotient(n, d) == IF n = 0 THEN [num |-> 0, den |-> 1]
                  ELSE [num |-> n \div GCD(n, d), den |-> d \div GCD(n, d)]

\* min(1.0, q)
Min1(q) == IF q.num >= q.den THEN [num |-> 1, den |-> 1] ELSE q

Entry(key, kws) == [key |-> key, kws |-> kws]

\* s.startswith(prefix)
StartsWith(s, prefix) ==
    Len(prefix) <= Len(s) /\ SubSeq(s, 1, Len(prefix)) = prefix

\* sub in s
IsSubstring(sub, s) ==
    \E i \in 0..(Len(s) - Len(sub)) : SubSeq(s, i + 1, i + Len(sub)) = sub

\* Mutant: only an equal or a prefix keyword matches.
token_matches_keyword_prefix_only(token, kw) ==
    IF token = <<>> \/ kw = <<>> THEN FALSE
    ELSE IF token = kw THEN TRUE
    ELSE StartsWith(token, kw)

token_matches_keyword(token, kw) ==
    IF token = <<>> \/ kw = <<>> THEN FALSE
    ELSE IF token = kw THEN TRUE
    ELSE IF StartsWith(token, kw) THEN TRUE
    ELSE IsSubstring(kw, token)

\* Mutant: every matching token counts.
score_keywords_per_token(toks, keywords) ==
    Sum([i \in 1..Len(keywords) |->
            Cardinality({j \in 1..Len(toks) : token_matches_keyword(toks[j], keywords[i])})])

score_keywords(toks, keywords) ==
    Cardinality({i \in 1..Len(keywords) :
                    \E j \in 1..Len(toks) : token_matches_keyword(toks[j], keywords[i])})

MatchResult(key, score, hits) == [key |-> key, score |-> score, hits |-> hits]

\* The loop of pick_best_group over group_keywords.items(), from entry i on,
\* with the locals best_key, best_hits, best_kw_len in best.
RECURSIVE pick_best_group_loop(_, _, _, _)
pick_best_group_loop(toks, catalog, i, best) ==
    IF i > Len(catalog) THEN best
    ELSE LET kws  == catalog[i].kws
             hits == score_keywords(toks, kws)
         IN  IF kws = <<>> THEN pick_best_group_loop(toks, catalog, i + 1, best)
             ELSE IF hits > best.best_hits
                  THEN pick_best_group_loop(toks, catalog, i + 1,
                           [best_key |-> catalog[i].key, best_hits |-> hits,
                            best_kw_len |-> Len(kws)])
                  ELSE pick_best_group_loop(toks, catalog, i + 1, best)

\* Mutant: a later group with as many hits replaces the winner.
pick_best_group_last_wins(text, catalog) ==
    LET toks == tokenize(text)
        n    == Len(catalog)
        hit  == [i \in 1..n |-> score_keywords(toks, catalog[i].kws)]
        top  == {i \in 1..n : hit[i] > 0 /\ \A j \in 1..n : hit[j] <= hit[i]}
    IN  IF top = {} THEN MatchResult(None, Quotient(0, 1), 0)
        ELSE LET w == CHOOSE i \in top : \A j \in top : j <= i
             IN  MatchResult(catalog[w].key,
                             Min1(Quotient(hit[w], Len(catalog[w].kws))), hit[w])

pick_best_group(text, catalog) ==
    LET toks  == tokenize(text)
        best  == pick_best_group_loop(toks, catalog, 1,
                     [best_key |-> None, best_hits |-> 0, best_kw_len |-> 0])
        score == IF best.best_key \notin {None, ""} /\ best.best_kw_len > 0
                 THEN Min1(Quotient(best.best_hits,
                                    IF best.best_kw_len > 1 THEN best.best_kw_len ELSE 1))
                 ELSE Quotient(0, 1)
    IN  MatchResult(best.best_key, score, best.best_hits)

\* The labels of the model in the order of sorted().
LabelOrder == <<"dairy", "fish", "raw_veg", "vegetables", "wholegrain">>

\* sorted(set(labels))
SortedSet(labels) ==
    LET In(x) == Contains(labels, x)
    IN  SelectSeq(LabelOrder, In)

collect_tags(text, catalog) ==
    LET toks    == tokenize(text)
        Hit(e)  == e.kws # <<>> /\ score_keywords(toks, e.kws) > 0
        matched == SelectSeq(catalog, Hit)
    IN  SortedSet([i \in 1..Len(matched) |-> matched[i].key])

-----------------------------------------------------------------------------
(* tokenize on its own: texts over a small alphabet                         *)

KARTOFFELN_MIT_GEMUESE ==
    <<"K", "a", "r", "t", "o", "f", "f", "e", "l", "n", " ", "m", "i", "t", " ",
      "G", "e", "m", UE, "s", "e">>
KARTOFFELN == <<"k", "a", "r", "t", "o", "f", "f", "e", "l", "n">>
GEMUESE    == <<"g", "e", "m", UE, "s", "e">>
KISIR      == <<"K", DOTLESS_I, "s", DOTLESS_I, "r">>

TokAlphabet == {"i", "n", "N", " ", "-", E_ACUTE, DOTLESS_I, DS_N, NBSP}

TokTexts(n) == SeqsUpTo(TokAlphabet, n) \cup {KARTOFFELN_MIT_GEMUESE, KISIR}

InitTok ==
    /\ input_text \in TokTexts(MaxTextLen)
    /\ tokens = NotRun
    /\ group_keywords = Idle /\ tag_keywords = Idle
    /\ group_res = Idle /\ tag_res = Idle
    /\ plan = Idle
    /\ IdleNorm /\ IdleEval /\ IdleCount /\ IdleRule /\ IdleBlock /\ IdleParse
    /\ IdleEnrich
    /\ IdleAmount /\ IdleUpload

\* One call of tokenize.
Tokenize ==
    /\ tokens = NotRun
    /\ tokens' = Return(tokenize(input_text))
    /\ UNCHANGED <<plan, normVars, evalVars, ruleVars, blockVars, parseVars,
                   input_text, group_keywords, tag_keywords, group_res, tag_res,
                   enrichVars,
                   amountVars, uploadVars>>

NextTok == Tokenize

SpecTok == InitTok /\ [][NextTok]_vars

\* The character class [a-z0-9äöüß] itself.
InClass(c) == c \in AsciiLower \/ IsDigit(c) \/ c \in {AE, OE, UE, SZ}

\* The maximal runs of class characters of the text n, in order of position.
ClassRuns(n) ==
    LET In(i)  == InClassIgnoreCase(n[i])
        starts == {i \in 1..Len(n) : In(i) /\ (i = 1 \/ ~In(i - 1))}
        EndOf(i) == CHOOSE j \in i..Len(n) :
                        /\ \A k \in i..j : In(k)
                        /\ (j = Len(n) \/ ~In(j + 1))
        Nth(m) == CHOOSE i \in starts : Cardinality({j \in starts : j < i}) = m - 1
    IN  [m \in 1..Cardinality(starts) |-> SubSeq(n, Nth(m), EndOf(Nth(m)))]

NotStopword(t) == t \notin STOPWORDS

\* C11: tokenize lowercases the text, splits it on the runs of characters
\* outside [a-z0-9äöüß] (the class is matched case-insensitively) and drops
\* the stop words: the tokens are the runs of class characters of the
\* normalised text that are no stop words, so no token is empty or a stop
\* word, and a text of ASCII and whitespace gives lower-case tokens only;
\* "Kartoffeln mit Gemüse" gives the tokens kartoffeln, gemüse, and
\* pick_best_group finds for it, in the catalog vegetables: [gemüse], the
\* group vegetables with confidence 1.0.
C11_TokenizeScenario ==
    tokens # NotRun =>
        /\ tokens.value = SelectSeq(ClassRuns(normalize_text(input_text)), NotStopword)
        /\ \A i \in 1..Len(tokens.value) :
              /\ tokens.value[i] # <<>>
              /\ tokens.value[i] \notin STOPWORDS
              /\ \A j \in 1..Len(tokens.value[i]) :
                    InClassIgnoreCase(tokens.value[i][j])
              /\ (\A k \in 1..Len(input_text) : input_text[k] \notin {DOTLESS_I, DS_N})
                    => \A j \in 1..Len(tokens.value[i]) : InClass(tokens.value[i][j])
        /\ input_text = KARTOFFELN_MIT_GEMUESE =>
              /\ tokens.value = <<KARTOFFELN, GEMUESE>>
              /\ pick_best_group(input_text, <<Entry("vegetables", <<GEMUESE>>)>>)
                    = MatchResult("vegetables", Quotient(1, 1), 1)

\* C11 witness: the scenario text has been tokenized, its stop word dropped.
C11_Witness ==
    /\ input_text = KARTOFFELN_MIT_GEMUESE
    /\ tokens # NotRun
    /\ tokens.value = <<KARTOFFELN, GEMUESE>>

-----------------------------------------------------------------------------
(* pick_best_group and collect_tags on one text and one catalog             *)

EI   == <<"e", "i">>
EIS  == <<"e", "i", "s">>
REIS == <<"r", "e", "i", "s">>
BROT == <<"b", "r", "o", "t">>

TXT_EI        == <<"E", "i">>
TXT_EIS_EI    == <<"E", "i", "s", ",", " ", "E", "i">>
TXT_REIS      == <<"R", "e", "i", "s">>
TXT_MIT       == <<"m", "i", "t">>
TXT_BROT_REIS == <<"B", "r", "o", "t", " ", "m", "i", "t", " ", "R", "e", "i", "s">>
TXT_TEE       == <<"T", "e", "e">>

MatchTexts ==
    {<<>>, TXT_EI, TXT_EIS_EI, TXT_REIS, TXT_MIT, TXT_BROT_REIS, TXT_TEE}

\* Keyword lists as the loaders build them: sorted, without duplicates. An
\* empty keyword comes from a blank entry of the mapping document
\* (load_json_mapping keeps normalize_text(" ")).
KeywordLists ==
    {<<>>, <<EI>>, <<EI, EIS>>, <<BROT, EI, REIS>>, <<<<>>, REIS>>}

\* The catalogs of at most n categories: distinct keys in any iteration
\* order (merge_keywords iterates a set of keys).
RECURSIVE Catalogs(_)
Catalogs(n) ==
    IF n = 0 THEN {<<>>}
    ELSE LET shorter == Catalogs(n - 1)
         IN  shorter \cup
             {Append(c, Entry(k, kws)) :
                 c \in {q \in shorter : Len(q) = n - 1},
                 k \in {"dairy", "fish", "wholegrain"},
                 kws \in KeywordLists}

UniqueKeys(c) == \A i, j \in 1..Len(c) : c[i].key = c[j].key => i = j

InitMatch ==
    /\ input_text \in MatchTexts
    /\ group_keywords \in {c \in Catalogs(MaxCats) : UniqueKeys(c)}
    /\ tag_keywords = group_keywords
    /\ tokens = NotRun /\ group_res = NotRun /\ tag_res = NotRun
    /\ plan = Idle
    /\ IdleNorm /\ IdleEval /\ IdleCount /\ IdleRule /\ IdleBlock /\ IdleParse
    /\ IdleEnrich
    /\ IdleAmount /\ IdleUpload

\* One call of pick_best_group (enrich_foodplan.py:468).
PickBestGroup ==
    /\ group_res = NotRun
    /\ group_res' = pick_best_group(input_text, group_keywords)
    /\ UNCHANGED <<plan, normVars, evalVars, ruleVars, blockVars, parseVars,
                   input_text, group_keywords, tag_keywords, tokens, tag_res,
                   enrichVars,
                   amountVars, uploadVars>>

\* One call of collect_tags (enrich_foodplan.py:469).
CollectTags ==
    /\ tag_res = NotRun
    /\ tag_res' = Return(collect_tags(input_text, tag_keywords))
    /\ UNCHANGED <<plan, normVars, evalVars, ruleVars, blockVars, parseVars,
                   input_text, group_keywords, tag_keywords, tokens, group_res,
                   enrichVars,
                   amountVars, uploadVars>>

NextMatch == PickBestGroup \/ CollectTags

SpecMatch == InitMatch /\ [][NextMatch]_vars

\* A keyword that is equal to, a prefix of, or contained in a token of the text.
KeywordInText(kw, text) ==
    LET toks == tokenize(text)
    IN  kw # <<>> /\ \E j \in 1..Len(toks) : IsSubstring(kw, toks[j])

\* The hit count of a category: its keywords found in the text.
HitCount(e, text) ==
    Cardinality({i \in 1..Len(e.kws) : KeywordInText(e.kws[i], text)})

\* C12: pick_best_group selects a category whose hit count is the highest of
\* all categories and greater than zero; of several categories with the
\* highest count it keeps the first in the catalog's iteration order; the
\* result is None exactly when every category has zero hits.
C12_BestGroupFirstMaximum ==
    group_res # NotRun =>
        LET c   == group_keywords
            top == {i \in 1..Len(c) :
                       /\ HitCount(c[i], input_text) > 0
                       /\ \A j \in 1..Len(c) :
                             HitCount(c[j], input_text) <= HitCount(c[i], input_text)}
        IN  /\ (group_res.key = None) <=>
                   (\A i \in 1..Len(c) : HitCount(c[i], input_text) = 0)
            /\ top # {} =>
                  LET w == CHOOSE i \in top : \A j \in top : i <= j
                  IN  /\ group_res.key = c[w].key
                      /\ group_res.hits = HitCount(c[w], input_text)
                      /\ group_res.hits > 0

\* C12 witness: two categories tie with one hit each and the first is kept.
C12_Witness ==
    /\ group_res # NotRun
    /\ Len(group_keywords) = 2
    /\ HitCount(group_keywords[1], input_text) = 1
    /\ HitCount(group_keywords[2], input_text) = 1
    /\ group_res.key = group_keywords[1].key

\* C14: collect_tags returns exactly the tag categories that have at least
\* one keyword equal to, a prefix of, or contained in at least one token of
\* the text: each of them once, no other tag, any number of them.
C14_TagsExactlyMatching ==
    tag_res # NotRun =>
        /\ {tag_res.value[i] : i \in 1..Len(tag_res.value)}
              = {tag_keywords[i].key : i \in {k \in 1..Len(tag_keywords) :
                     \E m \in 1..Len(tag_keywords[k].kws) :
                        KeywordInText(tag_keywords[k].kws[m], input_text)}}
        /\ \A i, j \in 1..Len(tag_res.value) :
              tag_res.value[i] = tag_res.value[j] => i = j

\* C14 witness: two tags are returned for "Reis", one through a keyword
\* contained in the token, one through an equal keyword.
C14_Witness ==
    /\ tag_res # NotRun
    /\ input_text = TXT_REIS
    /\ Len(tag_res.value) = 2
    /\ \E i \in 1..2 : tag_keywords[i].kws = <<EI, EIS>>
    /\ \E i \in 1..2 : tag_keywords[i].kws = <<<<>>, REIS>>

-----------------------------------------------------------------------------
(* enrich_foodplan.py: the BLS fallback and enrich_plan                     *)
(*                                                                         *)
(* The lookup store behind bls_db_path is NoPath (no path given),           *)
(* MissingFile (the path does not exist) or a database: whether some table  *)
(* has a name column, whether it has an id column, and the table's rows     *)
(* (id, name) in scan order.                                                *)

NoPath      == [kind |-> "none"]
MissingFile == [kind |-> "missing"]
Db(name_col, id_col, db_rows) ==
    [kind |-> "db", name_col |-> name_col, id_col |-> id_col, rows |-> db_rows]
BlsRow(id, name) == [id |-> id, name |-> name]

\* The optional connection (enrich_foodplan.py:454-459).
connect(db) == IF db.kind = "db" THEN db ELSE PyNone

\* LOWER(name) LIKE '%tok%': SQLite folds the case of ASCII letters only.
Like(name, tok) == IsSubstring(Lower(tok), Lower(name))

BlsLimit == 10

NoMatch == [bls_id |-> None, bls_name |-> PyNone]

bls_best_match(conn, query_text) ==
    LET toks     == tokenize(query_text)
        first6   == Prefix(toks, 6)
        Hit(row) == \E i \in 1..Len(first6) : Like(row.name, first6[i])
        found    == Prefix(SelectSeq(conn.rows, Hit), BlsLimit)
        hits     == [r \in 1..Len(found) |->
                        LET name_tokens == tokenize(normalize_text(found[r].name))
                        IN  Cardinality({i \in 1..Len(toks) :
                                \E n \in 1..Len(name_tokens) :
                                    \/ token_matches_keyword(name_tokens[n], toks[i])
                                    \/ token_matches_keyword(toks[i], name_tokens[n])})]
    IN  IF ~conn.name_col THEN NoMatch
        ELSE IF toks = <<>> THEN NoMatch
        ELSE IF found = <<>> THEN NoMatch
        ELSE LET best == CHOOSE r \in 1..Len(found) :
                             /\ \A q \in 1..Len(found) : hits[q] <= hits[r]
                             /\ \A q \in 1..(r - 1) : hits[q] < hits[r]
             IN  [bls_id |-> IF conn.id_col THEN found[best].id ELSE None,
                  bls_name |-> PyStr(found[best].name)]

\* item.get("links") or {}, with the key bls_name that enrich_plan may add.
LinksOf(item) ==
    LET l == IF item.links.t = "dict" THEN item.links ELSE EmptyDict
    IN  [t |-> "dict", bls_id |-> l.bls_id, food_group |-> l.food_group,
         confidence |-> l.confidence,
         bls_name |-> IF "bls_name" \in DOMAIN l THEN l.bls_name ELSE PyMissing]

\* bool(key) of a MatchResult key
Falsy(key) == key \in {None, ""}

\* Mutant: the tags found replace the tags the item had.
enrich_write_replaces_tags(item, first_res, asked, match, used_bls, res, tags) ==
    LET links == LinksOf(item)
    IN  [item |-> [item EXCEPT
                     !.links = [links EXCEPT
                                  !.food_group = res.key,
                                  !.confidence = res.score,
                                  !.bls_id = IF used_bls THEN match.bls_id ELSE @,
                                  !.bls_name = IF used_bls THEN match.bls_name ELSE @],
                     !.tags = PyList(SortedSet(tags))],
         unmapped_before_bls |-> Falsy(first_res.key),
         queried |-> IF asked THEN <<item.raw_text>> ELSE <<>>,
         used_bls |-> used_bls,
         mapped |-> ~Falsy(res.key)]

\* Mutant: the debug fields of the candidate are not written.
enrich_write_drops_bls_fields(item, first_res, asked, match, used_bls, res, tags) ==
    LET links    == LinksOf(item)
        old_tags == IF item.tags.t = "list" THEN item.tags.v ELSE <<>>
    IN  [item |-> [item EXCEPT
                     !.links = [links EXCEPT
                                  !.food_group = res.key,
                                  !.confidence = res.score],
                     !.tags = PyList(SortedSet(old_tags \o tags))],
         unmapped_before_bls |-> Falsy(first_res.key),
         queried |-> IF asked THEN <<item.raw_text>> ELSE <<>>,
         used_bls |-> used_bls,
         mapped |-> ~Falsy(res.key)]

\* The end of the loop body (enrich_foodplan.py:489-506): the item as written
\* back, and what the pass did for it.
enrich_write(item, first_res, asked, match, used_bls, res, tags) ==
    LET links    == LinksOf(item)
        old_tags == IF item.tags.t = "list" THEN item.tags.v ELSE <<>>
    IN  [item |-> [item EXCEPT
                     !.links = [links EXCEPT
                                  !.food_group = res.key,
                                  !.confidence = res.score,
                                  !.bls_id = IF used_bls THEN match.bls_id ELSE @,
                                  !.bls_name = IF used_bls THEN match.bls_name ELSE @],
                     !.tags = PyList(SortedSet(old_tags \o tags))],
         unmapped_before_bls |-> Falsy(first_res.key),
         queried |-> IF asked THEN <<item.raw_text>> ELSE <<>>,
         used_bls |-> used_bls,
         mapped |-> ~Falsy(res.key)]

\* Mutant: the candidate's classification replaces the tags of the raw text.
enrich_fallback_tags_of_candidate(item, gk, tk, first_res, first_tags, asked, match) ==
    LET used_bls == asked /\ match.bls_name # PyNone
    IN  enrich_write(item, first_res, asked, match, used_bls,
            IF used_bls THEN pick_best_group(match.bls_name.s, gk) ELSE first_res,
            IF used_bls THEN collect_tags(match.bls_name.s, tk) ELSE first_tags)

\* The use of a candidate (enrich_foodplan.py:480-486): with a candidate
\* name, the group is that of the name and the name's tags are added.
enrich_fallback(item, gk, tk, first_res, first_tags, asked, match) ==
    LET used_bls == asked /\ match.bls_name # PyNone
    IN  enrich_write(item, first_res, asked, match, used_bls,
            IF used_bls THEN pick_best_group(match.bls_name.s, gk) ELSE first_res,
            IF used_bls
            THEN SortedSet(first_tags \o collect_tags(match.bls_name.s, tk))
            ELSE first_tags)

\* Mutant: the lookup is queried for every item.
enrich_lookup_always_queries(item, gk, tk, conn, first_res, first_tags) ==
    LET asked == conn # PyNone
    IN  enrich_fallback(item, gk, tk, first_res, first_tags, asked,
            IF asked THEN bls_best_match(conn, item.raw_text) ELSE NoMatch)

\* The condition of the fallback (enrich_foodplan.py:476-479): the lookup
\* is queried when no group was found and a connection is open.
enrich_lookup(item, gk, tk, conn, first_res, first_tags) ==
    LET asked == Falsy(first_res.key) /\ conn # PyNone
    IN  enrich_fallback(item, gk, tk, first_res, first_tags, asked,
            IF asked THEN bls_best_match(conn, item.raw_text) ELSE NoMatch)

\* The body of enrich_plan's loop for one item (enrich_foodplan.py:464-506).
enrich_item(item, gk, tk, conn) ==
    enrich_lookup(item, gk, tk, conn,
        pick_best_group(item.raw_text, gk), collect_tags(item.raw_text, tk))

\* Mutant: every item with a candidate counts as mapped through the lookup.
RECURSIVE enrich_loop_counts_candidates(_, _, _, _, _, _)
enrich_loop_counts_candidates(its, i, gk, tk, conn, acc) ==
    IF i > Len(its) THEN acc
    ELSE LET step(r, st) ==
                 enrich_loop_counts_candidates(its, i + 1, gk, tk, conn,
                     [items |-> Append(acc.items, r.item),
                      stats |->
                         [total_items |-> st.total_items + 1,
                          mapped_groups |-> st.mapped_groups + IF r.mapped THEN 1 ELSE 0,
                          unmapped_before_bls |->
                              st.unmapped_before_bls
                                  + IF r.unmapped_before_bls THEN 1 ELSE 0,
                          mapped_via_bls |->
                              st.mapped_via_bls + IF r.used_bls THEN 1 ELSE 0,
                          still_unmapped |->
                              st.still_unmapped + IF r.mapped THEN 0 ELSE 1],
                      queried |-> acc.queried \o r.queried])
         IN  step(enrich_item(its[i], gk, tk, conn), acc.stats)

\* The loop of enrich_plan over the items in iteration order, from item i
\* on: the items written back, the stats, the texts passed to bls_best_match.
RECURSIVE enrich_loop(_, _, _, _, _, _)
enrich_loop(its, i, gk, tk, conn, acc) ==
    IF i > Len(its) THEN acc
    ELSE LET step(r, st) ==
                 enrich_loop(its, i + 1, gk, tk, conn,
                     [items |-> Append(acc.items, r.item),
                      stats |->
                         [total_items |-> st.total_items + 1,
                          mapped_groups |-> st.mapped_groups + IF r.mapped THEN 1 ELSE 0,
                          unmapped_before_bls |->
                              st.unmapped_before_bls
                                  + IF r.unmapped_before_bls THEN 1 ELSE 0,
                          mapped_via_bls |->
                              st.mapped_via_bls
                                  + IF r.mapped /\ r.used_bls THEN 1 ELSE 0,
                          still_unmapped |->
                              st.still_unmapped + IF r.mapped THEN 0 ELSE 1],
                      queried |-> acc.queried \o r.queried])
         IN  step(enrich_item(its[i], gk, tk, conn), acc.stats)

\* The number of items that precede menu m of day d in iteration order.
ItemsBefore(p, d, m) ==
    Sum([x \in 1..(d - 1) |->
            Sum([y \in 1..Len(p.days[x].menus) |-> Len(p.days[x].menus[y].items)])])
    + Sum([y \in 1..(m - 1) |-> Len(p.days[d].menus[y].items)])

\* enrich_plan: the plan with every item written back in place, the stats,
\* and the texts passed to bls_best_match in call order.
enrich_plan(p, gk, tk, db) ==
    LET start == [items |-> <<>>,
                  stats |-> [total_items |-> 0, mapped_groups |-> 0,
                             unmapped_before_bls |-> 0, mapped_via_bls |-> 0,
                             still_unmapped |-> 0],
                  queried |-> <<>>]
        result(done) ==
            [plan |-> [p EXCEPT !.days = [d \in 1..Len(p.days) |->
                          [p.days[d] EXCEPT !.menus = [m \in 1..Len(p.days[d].menus) |->
                              [p.days[d].menus[m] EXCEPT !.items =
                                  [k \in 1..Len(p.days[d].menus[m].items) |->
                                      done.items[ItemsBefore(p, d, m) + k]]]]]]],
             stats |-> done.stats,
             queried |-> done.queried]
    IN  result(enrich_loop(AllItems(p), 1, gk, tk, connect(db), start))

-----------------------------------------------------------------------------
(* enrich_plan on a parsed plan (app.py:219, enrich_foodplan.py:562)        *)

TEE          == <<"t", "e", "e">>
TXT_TEE_BROT == <<"T", "e", "e", " ", "m", "i", "t", " ", "B", "r", "o", "t">>
TEE_EIS      == <<"T", "e", "e", ",", " ", "E", "i", "s">>
TEEWURST     == <<"T", "e", "e", "w", "u", "r", "s", "t">>

ROW_TEE_EIS  == BlsRow("B1", TEE_EIS)
ROW_TEEWURST == BlsRow("B2", TEEWURST)

Dbs ==
    {NoPath, MissingFile, Db(FALSE, TRUE, <<ROW_TEE_EIS>>),
     Db(TRUE, FALSE, <<ROW_TEE_EIS>>)}
    \cup {Db(TRUE, TRUE, r) :
            r \in {<<>>, <<ROW_TEE_EIS>>, <<ROW_TEEWURST, ROW_TEE_EIS>>}}

EnrichGroups ==
    {<<Entry("dairy", <<EI, EIS>>)>>,
     <<Entry("wholegrain", <<BROT, EI, REIS>>)>>,
     <<Entry("dairy", <<EI, EIS>>), Entry("wholegrain", <<BROT, EI, REIS>>)>>}

EnrichTags ==
    {<<Entry("wholegrain", <<BROT>>), Entry("fish", <<EIS>>)>>,
     <<Entry("raw_veg", <<TEE>>)>>}

\* Items as the parser builds them (links with three None fields, no tags),
\* and items of a plan document that was enriched before.
ParsedLinks == Links(None, None, None)

EnrichedLinks ==
    [t |-> "dict", bls_id |-> "B9", food_group |-> "fish",
     confidence |-> Quotient(1, 2), bls_name |-> PyStr(TEEWURST)]

EnrichItems ==
    {Item(TXT_EIS_EI, PyMissing, PyMissing),
     Item(TXT_TEE_BROT, ParsedLinks, PyList(<<"raw_veg">>)),
     [Item(TXT_MIT, ParsedLinks, PyList(<<>>)) EXCEPT
          !.portion = parse_amount(Cell(TXT_200G)), !.notes = <<NOTE_N>>],
     Item(TXT_EI, EnrichedLinks, PyList(<<"fish">>))}

EnrichPlans(n) ==
    LET seqs == SeqsUpTo(EnrichItems, n)
    IN  {Plan(<<Day(PyStr(MONTAG), <<Menu(PyStr(MISCHKOST), s)>>)>>) : s \in seqs}
        \cup {Plan([i \in 1..Len(s) |->
                    Day(PyStr(MONTAG), <<Menu(PyStr(DESSERT), <<s[i]>>)>>)]) :
                s \in {q \in seqs : Len(q) >= 2}}

InitEnrich ==
    /\ plan \in EnrichPlans(MaxItems)
    /\ submitted = plan
    /\ group_keywords \in EnrichGroups
    /\ tag_keywords \in EnrichTags
    /\ bls_db \in Dbs
    /\ stats = NotRun /\ queried = NotRun
    /\ first = Idle /\ runs = Idle
    /\ input_text = Idle /\ tokens = Idle /\ group_res = Idle /\ tag_res = Idle
    /\ IdleEval /\ IdleCount /\ IdleRule /\ IdleBlock /\ IdleParse
    /\ IdleAmount /\ IdleUpload

\* One call of enrich_plan; the plan is changed in place.
EnrichPlan ==
    /\ stats = NotRun
    /\ \E r \in {enrich_plan(plan, group_keywords, tag_keywords, bls_db)} :
           /\ plan' = r.plan
           /\ stats' = r.stats
           /\ queried' = r.queried
    /\ UNCHANGED <<submitted, first, runs, evalVars, ruleVars, blockVars,
                   parseVars, matchVars, bls_db, amountVars, uploadVars>>

NextEnrich == EnrichPlan

SpecEnrich == InitEnrich /\ [][NextEnrich]_vars

\* The items before and after enrich_plan, in iteration order.
BeforeItems == AllItems(submitted)
AfterItems  == AllItems(plan)

\* No category of the group catalog has a keyword in the text.
NoGroupFor(text) ==
    \A i \in 1..Len(group_keywords) : HitCount(group_keywords[i], text) = 0

\* The candidate that the lookup store has for a text (NoMatch if none).
CandidateFor(text) ==
    IF bls_db.kind = "db" THEN bls_best_match(bls_db, text) ELSE NoMatch

\* The fallback returned a candidate name for the item.
FallbackUsed(item) ==
    NoGroupFor(item.raw_text) /\ CandidateFor(item.raw_text).bls_name # PyNone

\* The text whose classification gives the item's food group.
ClassifiedText(item) ==
    IF FallbackUsed(item) THEN CandidateFor(item.raw_text).bls_name.s
    ELSE item.raw_text

TagsBefore(item) == IF item.tags.t = "list" THEN item.tags.v ELSE <<>>

AsSet(s) == {s[i] : i \in 1..Len(s)}

\* C13: a keyword gives a category at most one hit however many tokens it
\* matches, so a hit count never exceeds the size of the keyword set; after
\* enrichment an item's confidence is hits / keyword-set size of the winning
\* category, lies in [0, 1], is greater than 0 when the food group is not
\* None, and is 0.0 when it is None.
C13_ConfidenceIsHitShare ==
    stats # NotRun =>
        \A i \in 1..Len(AfterItems) :
            LET text == ClassifiedText(BeforeItems[i])
                toks == tokenize(text)
                fg   == AfterItems[i].links.food_group
                conf == AfterItems[i].links.confidence
            IN  /\ \A c \in 1..Len(group_keywords) :
                      /\ score_keywords(toks, group_keywords[c].kws)
                            = HitCount(group_keywords[c], text)
                      /\ score_keywords(toks, group_keywords[c].kws)
                            <= Len(group_keywords[c].kws)
                /\ 0 <= conf.num /\ conf.num <= conf.den
                /\ fg # None =>
                      \E c \in 1..Len(group_keywords) :
                          /\ group_keywords[c].key = fg
                          /\ conf = Quotient(HitCount(group_keywords[c], text),
                                             Len(group_keywords[c].kws))
                          /\ conf.num > 0
                /\ fg = None => conf = Quotient(0, 1)

\* C13 witness: "Eis, Ei" holds the keyword ei in two tokens; it is one of
\* three keywords of the winning category, the confidence is 1/3.
C13_Witness ==
    /\ stats # NotRun
    /\ group_keywords = <<Entry("wholegrain", <<BROT, EI, REIS>>)>>
    /\ \E i \in 1..Len(AfterItems) :
          /\ BeforeItems[i].raw_text = TXT_EIS_EI
          /\ AfterItems[i].links.food_group = "wholegrain"
          /\ AfterItems[i].links.confidence = Quotient(1, 3)

\* C15: the lookup is queried for an item only if the keyword classification
\* of its raw text gave no food group; when no store is configured or its
\* file is missing, no item is looked up, no error is raised, and every item
\* gets exactly its keyword-only classification.
C15_FallbackOnlyWhenUnmapped ==
    stats # NotRun =>
        /\ \A q \in 1..Len(queried) :
              \E i \in 1..Len(BeforeItems) :
                  /\ BeforeItems[i].raw_text = queried[q]
                  /\ NoGroupFor(BeforeItems[i].raw_text)
        /\ Len(queried) <= Cardinality({i \in 1..Len(BeforeItems) :
                                           NoGroupFor(BeforeItems[i].raw_text)})
        /\ bls_db \in {NoPath, MissingFile} =>
              /\ queried = <<>>
              /\ stats.mapped_via_bls = 0
              /\ \A i \in 1..Len(AfterItems) :
                    LET raw == BeforeItems[i].raw_text
                        res == pick_best_group(raw, group_keywords)
                    IN  /\ AfterItems[i].links.food_group = res.key
                        /\ AfterItems[i].links.confidence = res.score
                        /\ AfterItems[i].links.bls_id = LinksOf(BeforeItems[i]).bls_id
                        /\ AfterItems[i].links.bls_name = LinksOf(BeforeItems[i]).bls_name
                        /\ AsSet(AfterItems[i].tags.v)
                              = AsSet(TagsBefore(BeforeItems[i]))
                                \cup AsSet(collect_tags(raw, tag_keywords))

\* C15 witness: with a store at hand one item was looked up and another,
\* classified from its raw text, was not.
C15_Witness ==
    /\ stats # NotRun
    /\ bls_db.kind = "db"
    /\ Len(BeforeItems) = 2
    /\ Len(queried) = 1
    /\ NoGroupFor(BeforeItems[1].raw_text)
    /\ ~NoGroupFor(BeforeItems[2].raw_text)

\* C16 as stated: when the fallback returned a candidate name for an item,
\* the food group and the tags written for the item are those obtained by
\* classifying the candidate's name.
C16_CandidateClassificationOnly ==
    stats # NotRun =>
        \A i \in 1..Len(AfterItems) :
            FallbackUsed(BeforeItems[i]) =>
                LET name == CandidateFor(BeforeItems[i].raw_text).bls_name.s
                IN  /\ AfterItems[i].links.food_group
                          = pick_best_group(name, group_keywords).key
                    /\ AfterItems[i].tags.v = collect_tags(name, tag_keywords)

\* C16 amended: when the fallback returned a candidate name for an item, the
\* food group and the confidence written are those of the candidate's name;
\* the tags written are, sorted and without duplicates, the tags the item
\* had, the tags of its raw text and the tags of the candidate's name.
C16_CandidateGroupTagsUnion ==
    stats # NotRun =>
        \A i \in 1..Len(AfterItems) :
            FallbackUsed(BeforeItems[i]) =>
                LET raw  == BeforeItems[i].raw_text
                    name == CandidateFor(raw).bls_name.s
                IN  /\ AfterItems[i].links.food_group
                          = pick_best_group(name, group_keywords).key
                    /\ AfterItems[i].links.confidence
                          = pick_best_group(name, group_keywords).score
                    /\ AfterItems[i].tags.v
                          = SortedSet(TagsBefore(BeforeItems[i])
                                      \o collect_tags(raw, tag_keywords)
                                      \o collect_tags(name, tag_keywords))

\* C16 witness: "Tee mit Brot" has no group; the candidate "Tee, Eis" gives
\* the group dairy and the tag fish, the raw text the tag wholegrain, and the
\* item had the tag raw_veg.
C16_Witness ==
    /\ stats # NotRun
    /\ \E i \in 1..Len(AfterItems) :
          /\ BeforeItems[i].raw_text = TXT_TEE_BROT
          /\ AfterItems[i].links.bls_name = PyStr(TEE_EIS)
          /\ AfterItems[i].links.food_group = "dairy"
          /\ AfterItems[i].tags.v = <<"fish", "raw_veg", "wholegrain">>

\* C17: the candidate's bls_id and bls_name are recorded in an item's links
\* if a food group was found through the fallback candidate, and these
\* fields are written only for items on which the fallback was used: an item
\* classified from its raw text, or left without a candidate, gets no
\* bls_name (its links keep what they had, nothing when parsed).
C17_BlsFieldsOnlyFromFallback ==
    stats # NotRun =>
        \A i \in 1..Len(AfterItems) :
            LET before == LinksOf(BeforeItems[i])
                after  == AfterItems[i].links
                cand   == CandidateFor(BeforeItems[i].raw_text)
            IN  /\ (FallbackUsed(BeforeItems[i]) /\ after.food_group # None) =>
                      /\ after.bls_id = cand.bls_id
                      /\ after.bls_name = cand.bls_name
                      /\ after.bls_name.t = "str"
                /\ (after.bls_id # before.bls_id \/ after.bls_name # before.bls_name)
                      => FallbackUsed(BeforeItems[i])
                /\ ~FallbackUsed(BeforeItems[i]) =>
                      /\ after.bls_name = before.bls_name
                      /\ BeforeItems[i].links = ParsedLinks =>
                            after.bls_name = PyMissing

\* C17 witness: one item got its group through the candidate B1 and carries
\* its id and name; another, classified from its raw text, has no bls_name.
C17_Witness ==
    /\ stats # NotRun
    /\ \E i, j \in 1..Len(AfterItems) :
          /\ AfterItems[i].links.food_group = "dairy"
          /\ AfterItems[i].links.bls_id = "B1"
          /\ AfterItems[i].links.bls_name = PyStr(TEE_EIS)
          /\ BeforeItems[j].raw_text = TXT_EIS_EI
          /\ AfterItems[j].links.food_group # None
          /\ AfterItems[j].links.bls_name = PyMissing

\* C28: enrich_plan leaves the plan's top-level fields, the number and order
\* of days, menus and items, and every field of a day, of a menu and of an
\* item other than the item's links and tags (so raw_text, portion and
\* notes) as they were, and every tag an item had is among its tags
\* afterwards.
C28_EnrichFrame ==
    stats # NotRun =>
        /\ [plan EXCEPT !.days = submitted.days] = submitted
        /\ Len(plan.days) = Len(submitted.days)
        /\ \A d \in 1..Len(submitted.days) :
              LET old_day == submitted.days[d]
                  new_day == plan.days[d]
              IN  /\ [new_day EXCEPT !.menus = old_day.menus] = old_day
                  /\ Len(new_day.menus) = Len(old_day.menus)
                  /\ \A m \in 1..Len(old_day.menus) :
                        LET old_menu == old_day.menus[m]
                            new_menu == new_day.menus[m]
                        IN  /\ [new_menu EXCEPT !.items = old_menu.items] = old_menu
                            /\ Len(new_menu.items) = Len(old_menu.items)
                            /\ \A k \in 1..Len(old_menu.items) :
                                  LET old == old_menu.items[k]
                                      new == new_menu.items[k]
                                  IN  /\ DOMAIN new = DOMAIN old
                                      /\ new.raw_text = old.raw_text
                                      /\ new.portion = old.portion
                                      /\ new.notes = old.notes
                                      /\ new.tags.t = "list"
                                      /\ AsSet(TagsBefore(old)) \subseteq AsSet(new.tags.v)

\* C28 witness: a plan of two days; the first day's dish had the tag raw_veg
\* and has the tags raw_veg and wholegrain afterwards, the second day's dish
\* keeps its portion of 200 g and its note.
C28_Witness ==
    /\ stats # NotRun
    /\ Len(plan.days) = 2
    /\ submitted.days[1].menus[1].items[1].raw_text = TXT_TEE_BROT
    /\ submitted.days[1].menus[1].items[1].tags = PyList(<<"raw_veg">>)
    /\ plan.days[1].menus[1].items[1].raw_text = TXT_TEE_BROT
    /\ plan.days[1].menus[1].items[1].tags = PyList(<<"raw_veg", "wholegrain">>)
    /\ plan.days[1].menus[1].items[1].links.food_group = "wholegrain"
    /\ plan.days[2].menus[1].items[1].raw_text = TXT_MIT
    /\ plan.days[2].menus[1].items[1].portion = parse_amount(Cell(TXT_200G))
    /\ plan.days[2].menus[1].items[1].notes = <<NOTE_N>>

\* The stats after the first k items of the plan have been processed.
StatsAfter(k) ==
    enrich_loop(SubSeq(BeforeItems, 1, k), 1, group_keywords, tag_keywords,
                connect(bls_db),
                [items |-> <<>>,
                 stats |-> [total_items |-> 0, mapped_groups |-> 0,
                            unmapped_before_bls |-> 0, mapped_via_bls |-> 0,
                            still_unmapped |-> 0],
                 queried |-> <<>>]).stats

StatsConsistent(st) ==
    /\ st.total_items = st.mapped_groups + st.still_unmapped
    /\ st.unmapped_before_bls = st.mapped_via_bls + st.still_unmapped
    /\ st.mapped_via_bls <= st.mapped_groups
    /\ connect(bls_db) = PyNone =>
          /\ st.mapped_via_bls = 0
          /\ st.still_unmapped = st.unmapped_before_bls

\* C29: after every processed item and at the end of enrich_plan,
\* total_items = mapped_groups + still_unmapped, unmapped_before_bls
\* = mapped_via_bls + still_unmapped and mapped_via_bls <= mapped_groups;
\* with no lookup store mapped_via_bls is 0 and still_unmapped equals
\* unmapped_before_bls.
C29_StatsConsistent ==
    stats # NotRun =>
        /\ StatsConsistent(stats)
        /\ stats.total_items = Len(BeforeItems)
        /\ stats = StatsAfter(Len(BeforeItems))
        /\ \A k \in 0..Len(BeforeItems) :
              /\ StatsConsistent(StatsAfter(k))
              /\ StatsAfter(k).total_items = k

\* C29 witness: of two items without a group of their own one is mapped
\* through the lookup and one stays unmapped.
C29_Witness ==
    /\ stats # NotRun
    /\ stats.total_items = 2
    /\ stats.unmapped_before_bls = 2
    /\ stats.mapped_via_bls = 1
    /\ stats.mapped_groups = 1
    /\ stats.still_unmapped = 1

-----------------------------------------------------------------------------
(* backend/app.py: /api/preview and /api/analyze with the keyword loaders   *)

\* The keywords of the model in the order of sorted().
KeywordOrder == <<<<>>, BROT, EI, EIS, REIS, TEE>>

\* sorted(set(texts)) of keywords
SortedTexts(texts) ==
    LET In(x) == Contains(texts, x)
    IN  SelectSeq(KeywordOrder, In)

\* dict.get(key, []) on a catalog
KeywordsOf(catalog, key) ==
    Flatten([i \in 1..Len(catalog) |->
                IF catalog[i].key = key THEN catalog[i].kws ELSE <<>>])

KeysOf(catalog) == {catalog[i].key : i \in 1..Len(catalog)}

\* load_keyword_files: no catalog entries for an absent folder; else one
\* entry per file in the order of sorted(), keyed by the stem, holding the
\* normalized lines that are neither empty nor comments, sorted, once each.
load_keyword_files(folder) ==
    IF folder.t = "missing" THEN <<>>
    ELSE LET Listed(stem) == \E i \in 1..Len(folder.files) : folder.files[i].stem = stem
             stems   == SelectSeq(LabelOrder, Listed)
             FileOf(stem) == folder.files[CHOOSE i \in 1..Len(folder.files) :
                                              folder.files[i].stem = stem]
             Kept(line) == line # <<>> /\ Head(line) # "#"
             LinesOf(file) ==
                 SelectSeq([i \in 1..Len(file.lines) |-> normalize_text(file.lines[i])],
                           Kept)
         IN  [i \in 1..Len(stems) |->
                 Entry(stems[i], SortedTexts(LinesOf(FileOf(stems[i]))))]

\* One of the two loops of load_json_mapping with its dedupe: the entries
\* with a key, in the order of their first occurrence, each with its
\* non-empty keywords normalized, sorted, once each.
load_json_entries(entries) ==
    LET Keyed(r) == ~Falsy(r.key)
        keyed    == SelectSeq(entries, Keyed)
        First(i) == \A j \in 1..(i - 1) : keyed[j].key # keyed[i].key
        firsts   == SelectSeq([i \in 1..Len(keyed) |-> IF First(i) THEN keyed[i].key ELSE None],
                              LAMBDA k : k # None)
        Truthy(k) == k # <<>>
        Extended(key) ==
            Flatten([i \in 1..Len(keyed) |->
                IF keyed[i].key = key
                THEN LET kws == SelectSeq(keyed[i].contains_any, Truthy)
                     IN  [j \in 1..Len(kws) |-> normalize_text(kws[j])]
                ELSE <<>>])
    IN  [i \in 1..Len(firsts) |-> Entry(firsts[i], SortedTexts(Extended(firsts[i])))]

\* load_json_mapping: two empty catalogs for an absent file.
load_json_mapping(path) ==
    IF path.t = "missing" THEN [t |-> "catalogs", group_kw |-> <<>>, tag_kw |-> <<>>]
    ELSE [t |-> "catalogs",
          group_kw |-> load_json_entries(path.obj.mapping),
          tag_kw   |-> load_json_entries(path.obj.tags)]

\* merge_keywords: the keys of both catalogs, in the iteration order of a
\* set of strings (hash_order), each with the sorted union of its keywords.
merge_keywords(a, b, hash_order) ==
    LET In(k) == k \in KeysOf(a) \cup KeysOf(b)
        keys  == SelectSeq(hash_order, In)
    IN  [i \in 1..Len(keys) |->
            Entry(keys[i], SortedTexts(KeywordsOf(a, keys[i]) \o KeywordsOf(b, keys[i])))]

\* abort(code, description)
Abort(code, description) == [t |-> "abort", code |-> code, description |-> description]

\* A returned body (status 200).
Ok(body) == [t |-> "ok", body |-> body]

XLSX == <<".", "x", "l", "s", "x">>

\* The two catalogs of a request (app.py:208-217).
upload_keywords(cfg) ==
    LET json == load_json_mapping(cfg.mapping)
    IN  [group_keywords |-> merge_keywords(load_keyword_files(cfg.groups),
                                           json.group_kw, cfg.hash_order),
         tag_keywords   |-> merge_keywords(load_keyword_files(cfg.tags),
                                           json.tag_kw, cfg.hash_order)]

\* enrich_plan without a lookup store, then normalize_plan (app.py:219-222).
enrich_upload(p, kw) ==
    CHOOSE b \in
        {[t |-> "built", plan |-> normalize_plan(r.plan), stats |-> r.stats] :
            r \in {enrich_plan(p, kw.group_keywords, kw.tag_keywords, NoPath)}} : TRUE

\* build_enriched_plan_from_xlsx_upload(f); the upload holds the suffix of
\* its file name and what parse_foodplan_xlsx makes of its bytes (the plan
\* it returns or the exception it raises).
build_enriched_plan_from_xlsx_upload(f, cfg) ==
    IF Lower(f.suffix) # XLSX THEN Abort(400, "Bitte eine .xlsx Datei")
    ELSE IF IsError(f.parsed) THEN Abort(400, "Datei ist ungueltig")
    ELSE CHOOSE b \in {enrich_upload(f.parsed.value, kw) :
                          kw \in {upload_keywords(cfg)}} : TRUE

\* The end of preview (app.py:242-247).
preview_reply(b) ==
    IF b.t # "built" THEN b
    ELSE Ok([schema_version |-> "1.0", mode |-> "preview",
             plan |-> b.plan, stats |-> b.stats])

\* The handler of POST /api/preview.
preview(req, cfg) ==
    IF req.file.t = "missing" THEN Abort(400, "Kein Upload")
    ELSE CHOOSE r \in {preview_reply(b) :
             b \in {build_enriched_plan_from_xlsx_upload(req.file, cfg)}} : TRUE

\* The plan that analyze evaluates (app.py:261-275): the plan of a JSON
\* body, normalized, or else the upload, parsed, enriched and normalized.
analyze_plan(req, cfg) ==
    IF req.is_json /\ req.body_plan.t = "dict"
    THEN [t |-> "built", plan |-> normalize_plan(req.body_plan.v)]
    ELSE IF req.file.t = "missing" THEN Abort(400, "Kein Upload")
    ELSE build_enriched_plan_from_xlsx_upload(req.file, cfg)

\* The dual report of the two diet runs, or the exception of the first run
\* that raised.
analyze_dual(rs) ==
    IF IsError(rs["mixed"]) THEN rs["mixed"]
    ELSE IF IsError(rs["ovo_lacto_vegetarian"]) THEN rs["ovo_lacto_vegetarian"]
    ELSE Ok([schema_version |-> "1.0", mode |-> "dual",
             mixed |-> rs["mixed"],
             ovo_lacto_vegetarian |-> rs["ovo_lacto_vegetarian"]])

\* Mutant: without the rule document the plan is evaluated against no rules.
analyze_reports_without_rules(p, cfg) ==
    CHOOSE r \in {analyze_dual(rs) : rs \in
        {[d \in Diets |->
            evaluate_plan_for_diet(p,
                IF cfg.rules.t = "missing" THEN [scope |-> None, rules |-> <<>>]
                ELSE cfg.rules.doc, d)]}} : TRUE

\* The end of analyze (app.py:277-293): the rule document is looked for and
\* the plan evaluated for both diets.
analyze_reports(p, cfg) ==
    IF cfg.rules.t = "missing"
    THEN Abort(500, "rules/dge_lunch_rules.json nicht gefunden")
    ELSE CHOOSE r \in {analyze_dual(rs) : rs \in
             {[d \in Diets |-> evaluate_plan_for_diet(p, cfg.rules.doc, d)]}} : TRUE

analyze_answer(b, cfg) ==
    IF b.t # "built" THEN b ELSE analyze_reports(b.plan, cfg)

\* The handler of POST /api/analyze.
analyze(req, cfg) ==
    CHOOSE r \in {analyze_answer(b, cfg) : b \in {analyze_plan(req, cfg)}} : TRUE

-----------------------------------------------------------------------------
(* Requests to the two handlers under the configurations of backend/rules   *)

KeywordFile(stem, lines) == [stem |-> stem, lines |-> lines]
Folder(files) == [t |-> "dir", files |-> files]
MapEntry(key, contains_any) == [key |-> key, contains_any |-> contains_any]
JsonFile(obj) == [t |-> "file", obj |-> obj]

TXT_EIS     == <<"E", "i", "s">>
TXT_BROT    == <<"B", "r", "o", "t">>
COMMENT     == <<"#", " ", "e", "i">>
XLSX_UPPER  == <<".", "X", "L", "S", "X">>
CSV         == <<".", "c", "s", "v">>

\* keywords/groups: absent, or with the files raw_veg.txt and dairy.txt (in
\* the order of the directory listing), or with wholegrain.txt.
GroupFolders ==
    {PyMissing,
     Folder(<<KeywordFile("raw_veg", <<TXT_TEE>>),
              KeywordFile("dairy", <<COMMENT, TXT_EIS, <<>>, EIS>>)>>),
     Folder(<<KeywordFile("wholegrain", <<TXT_BROT>>)>>)}

\* keywords/tags: absent, or with the files wholegrain.txt and fish.txt.
TagFolders ==
    {PyMissing,
     Folder(<<KeywordFile("wholegrain", <<TXT_BROT>>), KeywordFile("fish", <<TXT_EIS>>)>>)}

\* bls_to_dge_groups.json: absent, without entries, or with entries.
MappingFiles ==
    {PyMissing,
     JsonFile([mapping |-> <<>>, tags |-> <<>>]),
     JsonFile([mapping |-> <<MapEntry("dairy", <<TXT_EI, <<>>>>),
                             MapEntry(None, <<TXT_TEE>>),
                             MapEntry("dairy", <<TXT_EIS>>)>>,
               tags |-> <<MapEntry("raw_veg", <<TXT_TEE>>)>>])}

\* dge_lunch_rules.json: absent, or a document of two rules.
RulesFiles ==
    {PyMissing,
     [t |-> "file",
      doc |-> [scope |-> "lunch",
               rules |-> <<Rule("g", "all", "food_group", PyStr("vegetables"),
                                "min", PyInt(1)),
                           Rule("t", "ovo_lacto_vegetarian", "tag", PyStr("raw_veg"),
                                "min", PyInt(1))>>]]}

\* Iteration orders of a set of category keys.
HashOrders ==
    {LabelOrder, <<"wholegrain", "vegetables", "raw_veg", "fish", "dairy">>}

\* Plans as parse_foodplan_xlsx returns them: at least one item, every item
\* with empty links and no tags.
UploadItems == {Item(t, ParsedLinks, PyList(<<>>)) : t \in {TXT_TEE_BROT, TXT_EIS_EI, TXT_MIT}}

UploadPlans(n) ==
    {Plan(<<Day(PyStr(MONTAG), <<Menu(PyStr(MISCHKOST), its)>>)>>) :
        its \in SeqsUpTo(UploadItems, n) \ {<<>>}}

Upload(suffix, content) == [t |-> "file", suffix |-> suffix, parsed |-> content]

Uploads(n) ==
    {Upload(CSV, Raise("ValueError", "not a workbook")),
     Upload(XLSX, Raise("RuntimeError", "Kein Speiseplan erkannt"))}
    \cup {Upload(sfx, Return(pl)) : sfx \in {XLSX, XLSX_UPPER}, pl \in UploadPlans(n)}

\* Plans a client posts back after the preview.
JsonPlans ==
    {Plan(<<Day(PyStr(MONTAG), <<Menu(PyStr(MISCHKOST), <<it>>)>>)>>) :
        it \in {Item(TXT_TEE_BROT, Links(None, "raw_veg", Quotient(1, 1)),
                     PyList(<<"wholegrain">>)),
                Item(TXT_MIT, Links(None, "vegetable", Quotient(0, 1)), PyList(<<>>))}}

Request(is_json, body_plan, file) ==
    [is_json |-> is_json, body_plan |-> body_plan, file |-> file]

PreviewRequests(n) ==
    {Request(FALSE, PyMissing, f) : f \in {PyMissing} \cup Uploads(n)}

AnalyzeRequests(n) ==
    PreviewRequests(n)
    \cup {Request(TRUE, [t |-> "dict", v |-> pl], PyMissing) : pl \in JsonPlans}
    \cup {Request(TRUE, PyMissing, PyMissing)}

InitUpload ==
    /\ config \in [groups : GroupFolders, tags : TagFolders, mapping : MappingFiles,
                   rules : RulesFiles, hash_order : HashOrders]
    /\ request = NotRun
    /\ response = NotRun
    /\ plan = Idle
    /\ IdleNorm /\ IdleEval /\ IdleCount /\ IdleRule /\ IdleBlock /\ IdleParse
    /\ IdleMatch /\ IdleEnrich /\ IdleAmount

\* One request to /api/preview. The handlers keep nothing between requests;
\* a behaviour serves one.
Preview ==
    /\ request = NotRun
    /\ \E req \in PreviewRequests(MaxItems) :
           /\ request' = [handler |-> "preview", req |-> req]
           /\ \E r \in {preview(req, config)} : response' = r
    /\ UNCHANGED <<plan, normVars, evalVars, ruleVars, blockVars, parseVars,
                   matchVars, enrichVars, amountVars, config>>

\* One request to /api/analyze.
Analyze ==
    /\ request = NotRun
    /\ \E req \in AnalyzeRequests(MaxItems) :
           /\ request' = [handler |-> "analyze", req |-> req]
           /\ \E r \in {analyze(req, config)} : response' = r
    /\ UNCHANGED <<plan, normVars, evalVars, ruleVars, blockVars, parseVars,
                   matchVars, enrichVars, amountVars, config>>

NextUpload == Preview \/ Analyze

SpecUpload == InitUpload /\ [][NextUpload]_vars

\* The request carries an upload that is parsed.
ValidUpload ==
    /\ request.req.file.t = "file"
    /\ Lower(request.req.file.suffix) = XLSX
    /\ ~IsError(request.req.file.parsed)

\* The request carries a plan, posted or uploaded.
CarriesPlan ==
    \/ request.req.is_json /\ request.req.body_plan.t = "dict"
    \/ ~(request.req.is_json /\ request.req.body_plan.t = "dict") /\ ValidUpload

\* C21 as stated: with the rule document or the keyword mapping file absent
\* a run fails with an error and returns no enriched plan and no report.
C21_MissingConfigurationFatal ==
    request # NotRun =>
        /\ config.mapping.t = "missing" => response.t # "ok"
        /\ (request.handler = "analyze" /\ config.rules.t = "missing")
              => response.t # "ok"

\* C21 amended: only the rule document is required, and only by analyze: a
\* request to analyze that carries a plan is answered with the error 500 and
\* no report when the document is absent, and with a report when it is
\* there. The mapping file and the keyword folders are optional: a preview
\* of a valid upload always returns the enriched plan and its stats, an
\* absent mapping file gives the response of a mapping file without
\* entries, and with both folders absent as well every item is returned
\* without a food group and without tags.
C21_OnlyRuleDocumentRequired ==
    request # NotRun =>
        /\ (request.handler = "analyze" /\ CarriesPlan) =>
              IF config.rules.t = "missing"
              THEN response = Abort(500, "rules/dge_lunch_rules.json nicht gefunden")
              ELSE /\ response.t = "ok"
                   /\ response.body.mixed.t = "report"
                   /\ response.body.ovo_lacto_vegetarian.t = "report"
        /\ (request.handler = "preview" /\ ValidUpload) =>
              /\ response.t = "ok"
              /\ response.body.stats.total_items = Len(AllItems(request.req.file.parsed.value))
              /\ Len(AllItems(response.body.plan)) = response.body.stats.total_items
              /\ config.mapping.t = "missing" =>
                    response = preview(request.req,
                                   [config EXCEPT !.mapping =
                                       JsonFile([mapping |-> <<>>, tags |-> <<>>])])
              /\ (/\ config.mapping.t = "missing"
                  /\ config.groups.t = "missing"
                  /\ config.tags.t = "missing") =>
                    /\ response.body.stats.still_unmapped = response.body.stats.total_items
                    /\ \A i \in 1..Len(AllItems(response.body.plan)) :
                          /\ AllItems(response.body.plan)[i].links.food_group = None
                          /\ AllItems(response.body.plan)[i].tags = PyList(<<>>)

\* C21 witness: the mapping file and the rule document are absent, and the
\* preview of an upload of two dishes returned the plan, one dish mapped by
\* the keyword files.
C21_Witness ==
    /\ request # NotRun
    /\ request.handler = "preview"
    /\ config.mapping.t = "missing"
    /\ config.rules.t = "missing"
    /\ response.t = "ok"
    /\ response.body.stats.total_items = 2
    /\ response.body.stats.mapped_groups = 1

\* C22: in every plan that enrich_plan followed by normalize_plan returns,
\* the tags of each item are a sorted sequence without duplicates.
C22_TagsSortedUnique ==
    (request # NotRun /\ request.handler = "preview" /\ response.t = "ok") =>
        \A i \in 1..Len(AllItems(response.body.plan)) :
            LET tags == AllItems(response.body.plan)[i].tags
            IN  tags.t = "list" /\ tags.v = SortedSet(tags.v)

====
